---- MODULE Spec2Model ----
(***************************************************************************)
(* The doctr pipeline as state machines, one per component, over disjoint  *)
(* variables: DocumentBuilder and OCRPredictor (models/core.py),           *)
(* DetectionPostProcessor (models/detection/core.py), PreProcessor         *)
(* (models/preprocessor.py), SARPostProcessor (models/recognition/sar.py), *)
(* pixmap_to_numpy (documents/reader.py), crop_detection                   *)
(* (transforms/functional/tensorflow.py), the backend flags of             *)
(* file_utils.py, and, written from their tests, the two-corner box        *)
(* functions of utils/geometry.py and render() of documents/elements.py.   *)
(* Each component has its own specification; the variables of the          *)
(* components a specification does not run stay at their initial values.   *)
(*                                                                         *)
(* Numbers.  Box coordinates and scores are relative values in [0, 1];     *)
(* the model holds them as integers in thousandths (0.035 is 35).  The     *)
(* code's float expressions are evaluated exactly, as rationals, each      *)
(* comparison being cleared of its denominators:                           *)
(*   - np.median is kept as twice its value (Median2), an integer;         *)
(*   - the sort key xmin + 2 * ymax / y_med is kept multiplied by          *)
(*     1000 * Median2 (positive: every box of the inputs has a positive    *)
(*     height, so no division by zero is modelled);                        *)
(*   - the y-centre (ymin + ymax) / 2 is kept as twice its value.          *)
(* Floating-point rounding is not modelled.                                *)
(*                                                                         *)
(* Indices.  Python's 0-based list positions are 1-based sequence          *)
(* positions here; the counters page_idx and crop_idx keep their Python    *)
(* values.                                                                 *)
(***************************************************************************)
EXTENDS Integers, Sequences, FiniteSets, TLC

VARIABLES
    \* DocumentBuilder
    pc,               \* "new" | "ctor_raised" | "idle" | "loop" | "done"
    init_args,        \* the arguments __init__ was called with
    resolve_lines,    \* self.resolve_lines
    paragraph_break,  \* self.paragraph_break
    boxes,            \* argument of __call__: one box array per page
    char_sequences,   \* argument of __call__: the flat string list
    page_shapes,      \* argument of __call__: one (H, W) per page
    page_idx,         \* local of __call__
    crop_idx,         \* local of __call__
    _pages,           \* local of __call__
    lines,            \* local `lines` of each _build_blocks call made, per page
    raised,           \* the exception that left the last operation, "" if none
    message,          \* the argument of that exception, <<>> if none
    result,           \* what __call__ returned: NoDocument, or <<the Document>>
    calls,            \* number of __call__ made on the builder
    history,          \* the calls already left: arguments and outcome of each
    \* OCRPredictor.__call__
    ocr_pc,           \* "idle" | "check" | "detect" | "crop" | "recognize" |
                      \* "build" | "returned" | "raised"
    pages,            \* argument: one array per page, held as its shape
    invoked,          \* the components called so far, in call order
    det_boxes,        \* local `boxes`: the number of boxes found on each page
    crops,            \* local `crops`: <<page, box>> of each crop
    reco_strings,     \* local `char_sequences`
    builder_args,     \* what doc_builder was called with
    ocr_raised,       \* the exception that left the call, "" if none
    ocr_message,      \* its argument
    \* DetectionPostProcessor.box_score and the threshold on its result
    score_pc,         \* "idle" | "input" | "scored" | "filtered"
    pred,             \* argument: the probability map, pixel -> thousandths
    rotated_bbox,     \* argument
    points,           \* argument: the polygon (see BoxScoreInputs)
    score,            \* the value returned, <<numerator, denominator>>
    box_thresh,       \* self.box_thresh
    kept,             \* whether the candidate is in the output
    \* DetectionPostProcessor.__call__
    post_pc,          \* "idle" | "binarize" | "open" | "estimate" | "rotate" |
                      \* "extract" | "return" | "returned"
    bin_thresh,       \* self.bin_thresh
    proba_map,        \* argument, then the list of its pages (line 113)
    bitmap,           \* local: the list of binarized pages (line 114)
    k_size,           \* local
    page_no,          \* position of the loop of line 121 in the two lists
    p_,               \* local of the loop
    bitmap_,          \* local of the loop
    angle,            \* local of the loop
    boxes_batch,      \* local
    angles_batch,     \* local
    post_result,      \* what __call__ returned, <<>> if nothing yet
    \* PreProcessor.batch_inputs
    batch_pc,         \* "idle" | "count" | "full" | "rest" | "returned"
    batch_size,       \* self.batch_size
    batch_x,          \* argument `x`: the samples
    num_batches,      \* local: len(x) / batch_size, as <<len(x), batch_size>>
    batch_idx,        \* `idx`, the position of the comprehension of lines 80-81
    b_images,         \* local
    batch_result,     \* what batch_inputs returned, <<>> if nothing yet
    \* SARPostProcessor.__call__
    sar_pc,           \* "idle" | "argmax" | "join" | "split" | "words" | "returned" |
                      \* "raised"
    ignore_case,      \* self.ignore_case
    ignore_accents,   \* self.ignore_accents
    logits,           \* argument: per sample, per step, one value per class
    sar_pred,         \* local `pred`
    decoded_strings_pred, \* local: one text per sample
    words_list,       \* what __call__ returned, <<>> if nothing yet
    sar_raised,       \* the exception that left the call, "" if none
    \* pixmap_to_numpy
    pix_pc,           \* "idle" | "decode" | "order" | "returned" | "raised"
    pixmap,           \* argument: the pixels of the pixmap, each <<r, g, b>>
    channel_order,    \* argument
    img,              \* local
    pix_result,       \* the array returned, <<>> if none
    pix_raised,       \* the exception raised, "" if none
    \* doctr.utils.geometry: the two-corner box functions
    geo_pc,           \* "idle" | "input" | "enclosed" | "polygon" | "bbox"
    bboxes,           \* argument of resolve_enclosing_bbox: a list of two-corner boxes
    bbox,             \* argument of bbox_to_polygon
    polygon,          \* what bbox_to_polygon returned, <<>> if nothing yet
    geo_result,       \* what resolve_enclosing_bbox or polygon_to_bbox returned
    \* doctr.documents.elements: render()
    render_pc,        \* "idle" | "input" | "rendered"
    element,          \* the Word, Line, Block, Page or Document render() is called on
    rendered,         \* the text returned, a sequence of characters
    \* crop_detection (transforms/functional/tensorflow.py)
    crop_pc,          \* "idle" | "input" | "clipped" | "returned"
    crop_img,         \* argument img, held as its shape (H, W, C)
    crop_boxes,       \* the array `boxes`: its dtype and its rows (xmin, ymin, xmax, ymax)
    crop_box,         \* argument crop_box: (xmin, ymin, xmax, ymax), absolute
    boxes_given,      \* history: the rows of `boxes` as the caller passed them
    croped_img,       \* local croped_img, <<>> before the crop
    crop_result,      \* the pair returned, <<>> if nothing yet
    \* doctr/file_utils.py and doctr/__init__.py: the backend chosen at import
    backend_pc,       \* "idle" | "env" | "torch" | "tf" | "import" | "imported"
    environ,          \* os.environ: the variables set, each a text
    modules,          \* the modules importlib.util.find_spec finds
    distributions,    \* the installed distributions: name -> major version
    USE_TF,           \* module global, <<>> before line 24
    USE_TORCH,        \* module global, <<>> before line 25
    _torch_available, \* module global
    _tf_available,    \* module global
    imported          \* the subpackages doctr/__init__.py has imported

builderVars == <<pc, init_args, resolve_lines, paragraph_break, boxes, char_sequences,
                 page_shapes, page_idx, crop_idx, _pages, lines, raised, message, result,
                 calls, history>>

ocrVars == <<ocr_pc, pages, invoked, det_boxes, crops, reco_strings, builder_args,
             ocr_raised, ocr_message>>

scoreVars == <<score_pc, pred, rotated_bbox, points, score, box_thresh, kept>>

postVars == <<post_pc, bin_thresh, proba_map, bitmap, k_size, page_no, p_, bitmap_,
              angle, boxes_batch, angles_batch, post_result>>

batchVars == <<batch_pc, batch_size, batch_x, num_batches, batch_idx, b_images,
               batch_result>>

sarVars == <<sar_pc, ignore_case, ignore_accents, logits, sar_pred, decoded_strings_pred,
             words_list, sar_raised>>

pixVars == <<pix_pc, pixmap, channel_order, img, pix_result, pix_raised>>

geoVars == <<geo_pc, bboxes, bbox, polygon, geo_result>>

renderVars == <<render_pc, element, rendered>>

cropVars == <<crop_pc, crop_img, crop_boxes, crop_box, boxes_given, croped_img, crop_result>>

backendVars == <<backend_pc, environ, modules, distributions, USE_TF, USE_TORCH, _torch_available, _tf_available, imported>>

vars == <<builderVars, ocrVars, scoreVars, postVars, batchVars, sarVars, pixVars,
          geoVars, renderVars, cropVars, backendVars>>

\* What a step of one component leaves alone
BuilderOnly == UNCHANGED <<ocrVars, scoreVars, postVars, batchVars, sarVars, pixVars,
                           geoVars, renderVars, cropVars, backendVars>>
OcrOnly == UNCHANGED <<builderVars, scoreVars, postVars, batchVars, sarVars, pixVars,
                       geoVars, renderVars, cropVars, backendVars>>
ScoreOnly == UNCHANGED <<builderVars, ocrVars, postVars, batchVars, sarVars, pixVars,
                         geoVars, renderVars, cropVars, backendVars>>
PostOnly == UNCHANGED <<builderVars, ocrVars, scoreVars, batchVars, sarVars, pixVars,
                        geoVars, renderVars, cropVars, backendVars>>
BatchOnly == UNCHANGED <<builderVars, ocrVars, scoreVars, postVars, sarVars, pixVars,
                         geoVars, renderVars, cropVars, backendVars>>
SarOnly == UNCHANGED <<builderVars, ocrVars, scoreVars, postVars, batchVars, pixVars,
                       geoVars, renderVars, cropVars, backendVars>>
PixOnly == UNCHANGED <<builderVars, ocrVars, scoreVars, postVars, batchVars, sarVars,
                       geoVars, renderVars, cropVars, backendVars>>
GeoOnly == UNCHANGED <<builderVars, ocrVars, scoreVars, postVars, batchVars, sarVars,
                       pixVars, renderVars, cropVars, backendVars>>
RenderOnly == UNCHANGED <<builderVars, ocrVars, scoreVars, postVars, batchVars,
                          sarVars, pixVars, geoVars, cropVars, backendVars>>
CropOnly == UNCHANGED <<builderVars, ocrVars, scoreVars, postVars, batchVars, sarVars,
                        pixVars, geoVars, renderVars, backendVars>>
BackendOnly == UNCHANGED <<builderVars, ocrVars, scoreVars, postVars, batchVars,
                           sarVars, pixVars, geoVars, renderVars, cropVars>>

-----------------------------------------------------------------------------
(* Bounds of the inputs                                                    *)

MaxBoxes == 4
MaxPages == 2
MaxSurplus == 1

(* Program constants                                                       *)

DefaultParagraphBreak == 35

\* The values given for paragraph_break: the default, and a wider one
ParagraphBreaks == {DefaultParagraphBreak, 50}

Unset == "unset"
\* `result` is <<>> while no Document was returned, else <<the Document>>
NoDocument == <<>>

-----------------------------------------------------------------------------
(* Boxes: rows <<xmin, ymin, xmax, ymax, score>> of an (N, 5) array         *)

BoxA == <<100, 100, 200, 200, 900>>
BoxB == <<220, 100, 300, 200, 800>>
BoxC == <<350, 100, 400, 200, 700>>
BoxD == <<100, 300, 220, 400, 600>>
BoxE == <<250, 300, 350, 400, 500>>
BoxF == <<235, 120, 320, 220, 400>>
BoxG == <<120, 160, 180, 300, 300>>

Universe == {BoxA, BoxB, BoxC, BoxD, BoxE, BoxF, BoxG}
SmallUniverse == {BoxA, BoxE}

SeqsUpTo(S, n) == UNION {[1..k -> S] : k \in 0..n}

\* The pages of a multi-page batch: short pages over SmallUniverse
SmallPages == SeqsUpTo(SmallUniverse, Cardinality(SmallUniverse))

\* page.shape[:2] of the k-th page of a batch: a different shape per page
PageShape(k) == <<600 + 100 * k, 800 + 50 * k>>

RECURSIVE SumLen(_)
SumLen(ps) == IF ps = <<>> THEN 0 ELSE Len(Head(ps)) + SumLen(Tail(ps))

Token(i) == "w" \o ToString(i)
Strings(n) == [i \in 1..n |-> Token(i)]

-----------------------------------------------------------------------------
(* numpy helpers                                                           *)

\* ndarray.argsort / np.argsort on at most 16 keys: insertion sort, so equal
\* keys keep their index order.
\* Mutant: the order of equal keys depends on how many calls were made
ArgSort_unstable(keys) ==
    LET n == Len(keys)
        rank(i) == Cardinality({j \in 1..n : keys[j] < keys[i]
                                             \/ (keys[j] = keys[i] /\
                                                   IF calls % 2 = 1 THEN j < i ELSE j > i)})
    IN  [r \in 1..n |-> CHOOSE i \in 1..n : rank(i) = r - 1]

ArgSort(keys) ==
    LET n == Len(keys)
        rank(i) == Cardinality({j \in 1..n : keys[j] < keys[i]
                                             \/ (keys[j] = keys[i] /\ j < i)})
    IN  [r \in 1..n |-> CHOOSE i \in 1..n : rank(i) = r - 1]

\* Twice np.median(vals), Len(vals) >= 1
Median2(vals) ==
    LET n == Len(vals)
        o == ArgSort(vals)
    IN  IF n % 2 = 1 THEN 2 * vals[o[(n + 1) \div 2]]
        ELSE vals[o[n \div 2]] + vals[o[n \div 2 + 1]]

\* Twice y_med = np.median(boxes[:, 3] - boxes[:, 1])
YMed2(bxs) == Median2([i \in 1..Len(bxs) |-> bxs[i][4] - bxs[i][2]])

\* Twice boxes[idx][[1, 3]].mean()
YCenter2(b) == b[2] + b[4]

-----------------------------------------------------------------------------
(* DocumentBuilder._sort_boxes                                             *)

\* Mutant: the key takes the height of the box, ymax - ymin, for its ymax
SortKey_height(bxs, i) ==
    bxs[i][1] * YMed2(bxs) + 4 * 1000 * (bxs[i][4] - bxs[i][2])

\* (boxes[:, 0] + 2 * boxes[:, 3] / y_med)[i], times 1000 * YMed2
SortKey(bxs, i) == bxs[i][1] * YMed2(bxs) + 4 * 1000 * bxs[i][4]

\* Mutant: the boxes are left in their input order
_sort_boxes_unsorted(bxs) == [i \in 1..Len(bxs) |-> i]

_sort_boxes(bxs) == ArgSort([i \in 1..Len(bxs) |-> SortKey(bxs, i)])

-----------------------------------------------------------------------------
(* DocumentBuilder._resolve_sub_lines                                      *)

\* Mutant: a gap equal to paragraph_break does not split
HorizBreak_gt(bxs, i, prev, pb) == bxs[i][1] - bxs[prev][3] > pb

\* horiz_break after the test of line 119
HorizBreak(bxs, i, prev, pb) == ~(bxs[i][1] - bxs[prev][3] < pb)

RECURSIVE SubLineWalk(_, _, _, _, _, _)
SubLineWalk(bxs, w, pb, k, ls, sub_line) ==
    IF k > Len(w) THEN Append(ls, sub_line)
    ELSE IF HorizBreak(bxs, w[k], sub_line[Len(sub_line)], pb)
         THEN SubLineWalk(bxs, w, pb, k + 1, Append(ls, sub_line), <<w[k]>>)
         ELSE SubLineWalk(bxs, w, pb, k + 1, ls, Append(sub_line, w[k]))

_resolve_sub_lines(bxs, words, pb) ==
    LET o == ArgSort([k \in 1..Len(words) |-> bxs[words[k]][1]])
        w == [k \in 1..Len(words) |-> words[o[k]]]
    IN  IF Len(w) < 2 THEN <<w>>
        ELSE SubLineWalk(bxs, w, pb, 2, <<>>, <<w[1]>>)

-----------------------------------------------------------------------------
(* DocumentBuilder._resolve_lines                                          *)

\* Mutant: the y-centre is compared with the sum of the line's y-centres, not
\* with their mean
VertBreak_sum(bxs, idx, y_center_sum2, nwords) ==
    LET d == YCenter2(bxs[idx]) - y_center_sum2
        a == IF d < 0 THEN -d ELSE d
    IN  ~(2 * a < YMed2(bxs))

\* vert_break after the test of line 154:
\* abs(mean(idx) - y_center_sum / len(words)) < y_med / 2, times 4 * len(words)
VertBreak(bxs, idx, y_center_sum2, nwords) ==
    LET d == nwords * YCenter2(bxs[idx]) - y_center_sum2
        a == IF d < 0 THEN -d ELSE d
    IN  ~(2 * a < nwords * YMed2(bxs))

RECURSIVE LineWalk(_, _, _, _, _, _, _)
LineWalk(bxs, idxs, pb, k, ls, words, y_center_sum2) ==
    IF k > Len(idxs)
    THEN IF Len(words) > 0 THEN ls \o _resolve_sub_lines(bxs, words, pb) ELSE ls
    ELSE IF VertBreak(bxs, idxs[k], y_center_sum2, Len(words))
         THEN LineWalk(bxs, idxs, pb, k + 1,
                       ls \o _resolve_sub_lines(bxs, words, pb),
                       <<idxs[k]>>, YCenter2(bxs[idxs[k]]))
         ELSE LineWalk(bxs, idxs, pb, k + 1, ls,
                       Append(words, idxs[k]),
                       y_center_sum2 + YCenter2(bxs[idxs[k]]))

\* Mutant: the walk starts one word too far (idxs[2:] for idxs[1:])
_resolve_lines_skip(bxs, pb) ==
    LET idxs == ArgSort([i \in 1..Len(bxs) |-> SortKey(bxs, i)])
    IN  LineWalk(bxs, idxs, pb, 3, <<>>, <<idxs[1]>>, YCenter2(bxs[idxs[1]]))

_resolve_lines(bxs, pb) ==
    LET idxs == ArgSort([i \in 1..Len(bxs) |-> SortKey(bxs, i)])
    IN  LineWalk(bxs, idxs, pb, 2, <<>>, <<idxs[1]>>, YCenter2(bxs[idxs[1]]))

-----------------------------------------------------------------------------
(* DocumentBuilder._build_blocks                                           *)

Word(value, confidence, geometry) ==
    [value |-> value, confidence |-> confidence, geometry |-> geometry]

\* the Word of lines 201-205
BuildWord(bxs, strs, idx) ==
    Word(strs[idx], bxs[idx][5],
         <<<<bxs[idx][1], bxs[idx][2]>>, <<bxs[idx][3], bxs[idx][4]>>>>)

\* Mutant: only a surplus of strings is rejected
LengthMismatch_lt(bxs, strs) == Len(bxs) < Len(strs)

\* the guard of line 184
LengthMismatch(bxs, strs) == Len(bxs) # Len(strs)

\* Mutant: the message gives the number of strings only
MismatchMessage_short(bxs, strs) ==
    [text |-> "Incompatible argument lengths: ", strings |-> Len(strs)]

\* the f-string of line 185: its fixed text and the two values it formats,
\* boxes.shape[0] and len(char_sequences)
MismatchMessage(bxs, strs) ==
    [text |-> "Incompatible argument lengths: ", boxes |-> Len(bxs),
     strings |-> Len(strs)]

\* `lines` of lines 191-195
BuildLines(bxs, rl, pb) ==
    IF rl THEN _resolve_lines(bxs, pb) ELSE <<_sort_boxes(bxs)>>

\* Mutant: no early return for a page without boxes
BlocksOf_noguard(bxs, strs, ls) ==
    << [l \in 1..Len(ls) |->
          [p \in 1..Len(ls[l]) |-> BuildWord(bxs, strs, ls[l][p])]] >>

\* the blocks of lines 187-210, from `lines`
BlocksOf(bxs, strs, ls) ==
    IF Len(bxs) = 0 THEN <<>>
    ELSE << [l \in 1..Len(ls) |->
               [p \in 1..Len(ls[l]) |-> BuildWord(bxs, strs, ls[l][p])]] >>

-----------------------------------------------------------------------------
(* DocumentBuilder.__call__                                                *)

\* char_sequences[a: b] with 0 <= a <= b (Python slicing clips to the list)
Slice(s, a, b) ==
    LET hi == IF b < Len(s) THEN b ELSE Len(s)
    IN  IF a >= hi THEN <<>> ELSE SubSeq(s, a + 1, hi)

\* Mutant: the slice does not start at crop_idx
PageStrings_from0(strs, cidx, n) == Slice(strs, 0, n)

\* the slice handed to _build_blocks, line 241
PageStrings(strs, cidx, n) == Slice(strs, cidx, cidx + n)

Page(blocks, pidx, dimensions) ==
    [blocks |-> blocks, page_idx |-> pidx, dimensions |-> dimensions]

\* Document(_pages): the Document is its list of Pages
Document(ps) == ps

\* Mutant: every Page gets the shape of the first page
BuiltPage_shape0(blocks, pidx, shapes) == Page(blocks, pidx, shapes[1])

\* the Page of lines 238-245
BuiltPage(blocks, pidx, shapes) == Page(blocks, pidx, shapes[pidx + 1])

-----------------------------------------------------------------------------
(* The state before any call                                               *)

\* no OCRPredictor call was made
OcrIdle ==
    /\ ocr_pc = "idle"
    /\ pages = <<>>
    /\ invoked = <<>>
    /\ det_boxes = <<>>
    /\ crops = <<>>
    /\ reco_strings = <<>>
    /\ builder_args = <<>>
    /\ ocr_raised = ""
    /\ ocr_message = <<>>

\* no candidate is being scored
ScoreIdle ==
    /\ score_pc = "idle"
    /\ pred = <<>>
    /\ rotated_bbox = FALSE
    /\ points = <<>>
    /\ score = <<>>
    /\ box_thresh = 0
    /\ kept = FALSE

\* no DetectionPostProcessor call was made
PostIdle ==
    /\ post_pc = "idle"
    /\ bin_thresh = 0
    /\ proba_map = <<>>
    /\ bitmap = <<>>
    /\ k_size = 0
    /\ page_no = 0
    /\ p_ = <<>>
    /\ bitmap_ = <<>>
    /\ angle = <<>>
    /\ boxes_batch = <<>>
    /\ angles_batch = <<>>
    /\ post_result = <<>>

\* batch_inputs was not called
BatchIdle ==
    /\ batch_pc = "idle"
    /\ batch_size = 0
    /\ batch_x = <<>>
    /\ num_batches = <<>>
    /\ batch_idx = 0
    /\ b_images = <<>>
    /\ batch_result = <<>>

\* no SARPostProcessor call was made
SarIdle ==
    /\ sar_pc = "idle"
    /\ ignore_case = FALSE
    /\ ignore_accents = FALSE
    /\ logits = <<>>
    /\ sar_pred = <<>>
    /\ decoded_strings_pred = <<>>
    /\ words_list = <<>>
    /\ sar_raised = ""

\* pixmap_to_numpy was not called
PixIdle ==
    /\ pix_pc = "idle"
    /\ pixmap = <<>>
    /\ channel_order = ""
    /\ img = <<>>
    /\ pix_result = <<>>
    /\ pix_raised = ""

\* no geometry function was called
GeoIdle ==
    /\ geo_pc = "idle"
    /\ bboxes = <<>>
    /\ bbox = <<>>
    /\ polygon = <<>>
    /\ geo_result = <<>>

\* render() was not called
RenderIdle ==
    /\ render_pc = "idle"
    /\ element = <<>>
    /\ rendered = <<>>

\* crop_detection was not called
CropIdle ==
    /\ crop_pc = "idle"
    /\ crop_img = <<>>
    /\ crop_boxes = <<>>
    /\ crop_box = <<>>
    /\ boxes_given = <<>>
    /\ croped_img = <<>>
    /\ crop_result = <<>>

\* doctr was not imported
BackendIdle ==
    /\ backend_pc = "idle"
    /\ environ = <<>>
    /\ modules = {}
    /\ distributions = <<>>
    /\ USE_TF = <<>>
    /\ USE_TORCH = <<>>
    /\ _torch_available = FALSE
    /\ _tf_available = FALSE
    /\ imported = <<>>

-----------------------------------------------------------------------------
(* Actions of DocumentBuilder                                              *)

BuilderNew ==
    /\ pc = "new"
    /\ init_args = Unset
    /\ resolve_lines = Unset
    /\ paragraph_break = Unset
    /\ boxes = <<>>
    /\ char_sequences = <<>>
    /\ page_shapes = <<>>
    /\ page_idx = 0
    /\ crop_idx = 0
    /\ _pages = <<>>
    /\ lines = <<>>
    /\ raised = ""
    /\ message = <<>>
    /\ result = NoDocument
    /\ calls = 0
    /\ history = <<>>

Init ==
    /\ BuilderNew
    /\ BackendIdle
    /\ CropIdle
    /\ RenderIdle
    /\ GeoIdle
    /\ OcrIdle
    /\ ScoreIdle
    /\ PostIdle
    /\ BatchIdle
    /\ SarIdle
    /\ PixIdle

\* Mutant: the test of resolve_blocks is missing
UnsupportedBlocks_never(rb) == FALSE

\* The test of line 79
UnsupportedBlocks(rb) == rb

\* DocumentBuilder.__init__
Construct ==
    /\ pc = "new"
    /\ \E rl \in BOOLEAN, rb \in BOOLEAN, pb \in ParagraphBreaks :
          /\ init_args' = [resolve_lines |-> rl, resolve_blocks |-> rb,
                            paragraph_break |-> pb]
          /\ resolve_lines' = rl
          /\ IF UnsupportedBlocks(rb)
             THEN /\ raised' = "NotImplementedError"
                  /\ message' = <<>>
                  /\ pc' = "ctor_raised"
                  /\ paragraph_break' = paragraph_break
             ELSE /\ raised' = ""
                  /\ message' = <<>>
                  /\ pc' = "idle"
                  /\ paragraph_break' = pb
    /\ UNCHANGED <<boxes, char_sequences, page_shapes, page_idx, crop_idx,
                   _pages, lines, result, calls, history>>
    /\ BuilderOnly

\* The inputs of a call: one page of up to MaxBoxes boxes with its strings,
\* or up to MaxPages short pages with any number of strings up to MaxSurplus
\* more than the boxes.
CallInputs ==
    {[boxes |-> <<p>>, n |-> Len(p)] : p \in SeqsUpTo(Universe, MaxBoxes)}
    \cup
    UNION {{[boxes |-> bs, n |-> n] : n \in 0..(SumLen(bs) + MaxSurplus)} :
             bs \in SeqsUpTo(SmallPages, MaxPages)}

\* Mutant: crop_idx is kept from the call before
EntryLocals_stale == [page_idx |-> 0, crop_idx |-> crop_idx, _pages |-> <<>>]

\* page_idx, crop_idx = 0, 0 and _pages = [] of lines 233-234
EntryLocals == [page_idx |-> 0, crop_idx |-> 0, _pages |-> <<>>]

\* __call__ entered with the arguments inp: lines 215-234
Enter(inp) ==
    /\ boxes' = inp.boxes
    /\ char_sequences' = Strings(inp.n)
    /\ page_shapes' = [k \in 1..Len(inp.boxes) |-> PageShape(k)]
    /\ page_idx' = EntryLocals.page_idx
    /\ crop_idx' = EntryLocals.crop_idx
    /\ _pages' = EntryLocals._pages
    /\ lines' = <<>>
    /\ raised' = ""
    /\ message' = <<>>
    /\ result' = NoDocument
    /\ calls' = calls + 1
    /\ pc' = "loop"
    /\ UNCHANGED <<init_args, resolve_lines, paragraph_break>>
    /\ BuilderOnly

\* the first call made on a builder
Call ==
    /\ pc = "idle"
    /\ \E inp \in CallInputs : Enter(inp)
    /\ UNCHANGED history

\* Mutant: a page whose strings do not match is left out, the loop goes on
BuildPage_skip ==
    /\ pc = "loop"
    /\ page_idx < Len(boxes)
    /\ LET page_boxes == boxes[page_idx + 1]
           strs == PageStrings(char_sequences, crop_idx, Len(page_boxes))
       IN  IF LengthMismatch(page_boxes, strs)
           THEN /\ crop_idx' = crop_idx + Len(page_boxes)
                /\ page_idx' = page_idx + 1
                /\ UNCHANGED <<_pages, lines, raised, message, pc>>
           ELSE LET ls == IF Len(page_boxes) = 0 THEN <<>>
                          ELSE BuildLines(page_boxes, resolve_lines, paragraph_break)
                IN  /\ lines' = Append(lines, ls)
                    /\ _pages' = Append(_pages,
                                        BuiltPage(BlocksOf(page_boxes, strs, ls),
                                                  page_idx, page_shapes))
                    /\ crop_idx' = crop_idx + Len(page_boxes)
                    /\ page_idx' = page_idx + 1
                    /\ UNCHANGED <<raised, message, pc>>
    /\ UNCHANGED <<init_args, resolve_lines, paragraph_break, boxes, char_sequences,
                   page_shapes, result, calls, history>>
    /\ BuilderOnly

\* One iteration of the loop of lines 235-248
BuildPage ==
    /\ pc = "loop"
    /\ page_idx < Len(boxes)
    /\ LET page_boxes == boxes[page_idx + 1]
           strs == PageStrings(char_sequences, crop_idx, Len(page_boxes))
       IN  IF LengthMismatch(page_boxes, strs)
           THEN /\ raised' = "ValueError"
                /\ message' = MismatchMessage(page_boxes, strs)
                /\ pc' = "done"
                /\ UNCHANGED <<page_idx, crop_idx, _pages, lines>>
           ELSE IF Len(strs) < Len(page_boxes)
           THEN \* char_sequences[idx] of line 202, idx past the end of the list
                /\ raised' = "IndexError"
                /\ message' = [text |-> "list index out of range"]
                /\ pc' = "done"
                /\ UNCHANGED <<page_idx, crop_idx, _pages, lines>>
           ELSE LET ls == IF Len(page_boxes) = 0 THEN <<>>
                          ELSE BuildLines(page_boxes, resolve_lines, paragraph_break)
                IN  /\ lines' = Append(lines, ls)
                    /\ _pages' = Append(_pages,
                                        BuiltPage(BlocksOf(page_boxes, strs, ls),
                                                  page_idx, page_shapes))
                    /\ crop_idx' = crop_idx + Len(page_boxes)
                    /\ page_idx' = page_idx + 1
                    /\ UNCHANGED <<raised, message, pc>>
    /\ UNCHANGED <<init_args, resolve_lines, paragraph_break, boxes, char_sequences,
                   page_shapes, result, calls, history>>
    /\ BuilderOnly

\* The loop is exhausted: line 250
Return ==
    /\ pc = "loop"
    /\ page_idx = Len(boxes)
    /\ result' = <<Document(_pages)>>
    /\ pc' = "done"
    /\ UNCHANGED <<init_args, resolve_lines, paragraph_break, boxes, char_sequences,
                   page_shapes, page_idx, crop_idx, _pages, lines, raised, message,
                   calls, history>>
    /\ BuilderOnly

Next == Construct \/ Call \/ BuildPage \/ Return

Spec == Init /\ [][Next]_vars

-----------------------------------------------------------------------------
(* Several calls on one builder                                            *)

MaxCalls == 3

\* Batches for the calls of one builder: a page of two identical boxes, a
\* page of two boxes of equal xmin, two pages, an empty page before a page
RepeatBatches ==
    {<< <<BoxA, BoxA>> >>, << <<BoxD, BoxA>> >>,
     << <<BoxE>>, <<BoxA, BoxE>> >>, << <<>>, <<BoxA>> >>}

\* each with as many strings as boxes, or one fewer
RepeatInputs ==
    UNION {{[boxes |-> bs, n |-> SumLen(bs) - 1], [boxes |-> bs, n |-> SumLen(bs)]} :
             bs \in RepeatBatches}

\* what the caller had from the call that just ended
Outcome ==
    [boxes |-> boxes, char_sequences |-> char_sequences, page_shapes |-> page_shapes,
     raised |-> raised, message |-> message, result |-> result, lines |-> lines]

\* a call on a builder, the first or a later one
CallAgain ==
    /\ pc \in {"idle", "done"}
    /\ calls < MaxCalls
    /\ \E inp \in RepeatInputs : Enter(inp)
    /\ history' = IF pc = "done" THEN Append(history, Outcome) ELSE history

NextRepeat == Construct \/ CallAgain \/ BuildPage \/ Return

SpecRepeat == Init /\ [][NextRepeat]_vars

-----------------------------------------------------------------------------
(* OCRPredictor.__call__ (core.py) with the DetectionPredictor it calls     *)
(* (detection/core.py).  An array is held as its shape, a tuple whose       *)
(* length is the array's ndim.  The detection model, the cropping and the   *)
(* recognition model are the components the call invokes: what they return  *)
(* is kept by its size only (boxes per page, one string per crop).          *)

MaxOcrPages == 4
MaxDetBoxes == 1

\* a 2-D image, a multi-channel image, a batch of one multi-channel image
PageArrays == {<<600, 800>>, <<600, 800, 3>>, <<1, 600, 800, 3>>}

ndim(page) == Len(page)

\* Mutant: the call is refused only when every page is malformed
Malformed_all(ps) == \A k \in 1..Len(ps) : ndim(ps[k]) # 3

\* any(page.ndim != 3 for page in pages), core.py line 45
Malformed(ps) == \E k \in 1..Len(ps) : ndim(ps[k]) # 3

\* the same test in DetectionPredictor.__call__, detection/core.py line 162
DetMalformed(ps) == \E k \in 1..Len(ps) : ndim(ps[k]) # 3

\* the argument of the ValueError of core.py line 46 and detection/core.py line 163
ShapeMessage ==
    [text |-> "incorrect input shape: all pages are expected to be multi-channel 2D images."]

\* <<page, box>> of every crop, page by page: the comprehension of line 51
RECURSIVE CropsOf(_, _)
CropsOf(bs, k) ==
    IF k > Len(bs) THEN <<>>
    ELSE [j \in 1..bs[k] |-> <<k, j>>] \o CropsOf(bs, k + 1)

\* __call__ entered with its pages
OcrCall ==
    /\ ocr_pc = "idle"
    /\ \E ps \in SeqsUpTo(PageArrays, MaxOcrPages) : pages' = ps
    /\ ocr_pc' = "check"
    /\ UNCHANGED <<invoked, det_boxes, crops, reco_strings, builder_args,
                   ocr_raised, ocr_message>>
    /\ OcrOnly

\* the dimension check of lines 45-46
CheckPages ==
    /\ ocr_pc = "check"
    /\ IF Malformed(pages)
       THEN /\ ocr_raised' = "ValueError"
            /\ ocr_message' = ShapeMessage
            /\ ocr_pc' = "raised"
       ELSE /\ ocr_pc' = "detect"
            /\ UNCHANGED <<ocr_raised, ocr_message>>
    /\ UNCHANGED <<pages, invoked, det_boxes, crops, reco_strings, builder_args>>
    /\ OcrOnly

\* boxes = self.det_predictor(pages), line 49: DetectionPredictor.__call__
\* repeats the dimension check, then returns one box array per page
Detect ==
    /\ ocr_pc = "detect"
    /\ invoked' = Append(invoked, "det_predictor")
    /\ IF DetMalformed(pages)
       THEN /\ ocr_raised' = "ValueError"
            /\ ocr_message' = ShapeMessage
            /\ ocr_pc' = "raised"
            /\ UNCHANGED det_boxes
       ELSE /\ \E bs \in [1..Len(pages) -> 0..MaxDetBoxes] : det_boxes' = bs
            /\ ocr_pc' = "crop"
            /\ UNCHANGED <<ocr_raised, ocr_message>>
    /\ UNCHANGED <<pages, crops, reco_strings, builder_args>>
    /\ OcrOnly

\* the crops of line 51
Crop ==
    /\ ocr_pc = "crop"
    /\ crops' = CropsOf(det_boxes, 1)
    /\ ocr_pc' = "recognize"
    /\ UNCHANGED <<pages, invoked, det_boxes, reco_strings, builder_args,
                   ocr_raised, ocr_message>>
    /\ OcrOnly

\* char_sequences = self.reco_predictor(crops), line 53: one string per crop
Recognize ==
    /\ ocr_pc = "recognize"
    /\ invoked' = Append(invoked, "reco_predictor")
    /\ reco_strings' = Strings(Len(crops))
    /\ ocr_pc' = "build"
    /\ UNCHANGED <<pages, det_boxes, crops, builder_args, ocr_raised, ocr_message>>
    /\ OcrOnly

\* out = self.doc_builder(boxes, char_sequences, shapes), lines 56-58
Assemble ==
    /\ ocr_pc = "build"
    /\ invoked' = Append(invoked, "doc_builder")
    /\ builder_args' = [boxes |-> det_boxes,
                        char_sequences |-> reco_strings,
                        page_shapes |-> [k \in 1..Len(pages) |-> SubSeq(pages[k], 1, 2)]]
    /\ ocr_pc' = "returned"
    /\ UNCHANGED <<pages, det_boxes, crops, reco_strings, ocr_raised, ocr_message>>
    /\ OcrOnly

NextOcr == OcrCall \/ CheckPages \/ Detect \/ Crop \/ Recognize \/ Assemble

SpecOcr == Init /\ [][NextOcr]_vars

\* Either component at work: a DocumentBuilder used by itself, or an
\* OCRPredictor call
NextErrors == (ocr_pc = "idle" /\ Next) \/ (pc = "new" /\ NextOcr)

SpecErrors == Init /\ [][NextErrors]_vars

-----------------------------------------------------------------------------
(* DetectionPostProcessor.box_score (detection/core.py).  A probability is  *)
(* an integer in thousandths.  The quotient the function returns is kept    *)
(* exactly, as the pair <<numerator, denominator>>; <<0, 0>> is the float   *)
(* 0.0 / 0, which numpy evaluates to nan (with a RuntimeWarning, not an     *)
(* exception).  Pixels are <<y, x>>, 0-based as in the code.                *)

MapWidth == 2
MapHeight == 2

ProbLevels == {0, 800}
Thresholds == {0, 500, 900}

Pixels(h, w) == (0..(h - 1)) \X (0..(w - 1))

RECURSIVE SumOver(_, _)
SumOver(S, f) ==
    IF S = {} THEN 0
    ELSE LET x == CHOOSE y \in S : TRUE IN f[x] + SumOver(S \ {x}, f)

\* np.floor and np.ceil of a coordinate given in half pixels
Floor2(c2) == c2 \div 2
Ceil2(c2) == -((-c2) \div 2)

\* Mutant: only the lower bound is applied
Clip_lo(v, lo, hi) == IF v < lo THEN lo ELSE v

\* np.clip
Clip(v, lo, hi) == IF v < lo THEN lo ELSE IF v > hi THEN hi ELSE v

IsNaN(q) == q[2] = 0

\* q < t for a quotient q and a threshold t in thousandths; False for nan
Less(q, t) == ~IsNaN(q) /\ q[1] < t * q[2]

\* lines 77-81: the mean of the map over the clipped bounding rectangle;
\* ext is <<min x, max x, min y, max y>> of the points, in half pixels
RectScore(p, h, w, ext) ==
    LET xmin == Clip(Floor2(ext[1]), 0, w - 1)
        xmax == Clip(Ceil2(ext[2]), 0, w - 1)
        ymin == Clip(Floor2(ext[3]), 0, h - 1)
        ymax == Clip(Ceil2(ext[4]), 0, h - 1)
        rect == {px \in Pixels(h, w) : /\ ymin <= px[1] /\ px[1] <= ymax
                                       /\ xmin <= px[2] /\ px[2] <= xmax}
    IN  <<SumOver(rect, p), Cardinality(rect)>>

\* lines 84-87: product = pred * mask; np.sum(product) / np.count_nonzero(product)
MaskScore(p, mask) ==
    LET nonzero == {px \in mask : p[px] # 0}
    IN  <<SumOver(mask, p), Cardinality(nonzero)>>

\* box_score(pred, points, rotated_bbox)
box_score(p, h, w, pts, rotated) ==
    IF ~rotated THEN RectScore(p, h, w, pts) ELSE MaskScore(p, pts)

\* The polygons: for an oriented box the pixels cv2.fillPoly sets (none when
\* the polygon lies outside the map), for an axis-aligned box the extreme
\* coordinates of the points, x in half pixels from one pixel left of the
\* map to its right edge, y in whole pixels from one above to one below.
Extents(h, w) ==
    {<<x0, x1, 2 * y0, 2 * y1>> :
        x0 \in (-2)..(2 * w), x1 \in (-2)..(2 * w), y0 \in (-1)..h, y1 \in (-1)..h}

BoxScoreInputs ==
    {[pred |-> p, rotated_bbox |-> TRUE, points |-> m] :
        p \in [Pixels(MapHeight, MapWidth) -> ProbLevels],
        m \in SUBSET Pixels(MapHeight, MapWidth)}
    \cup
    {[pred |-> p, rotated_bbox |-> FALSE, points |-> e] :
        p \in [Pixels(MapHeight, MapWidth) -> ProbLevels],
        e \in {x \in Extents(MapHeight, MapWidth) : x[1] <= x[2] /\ x[3] <= x[4]}}

\* a candidate polygon of bitmap_to_boxes and the map it is scored on
InitScore ==
    /\ BuilderNew
    /\ BackendIdle
    /\ CropIdle
    /\ RenderIdle
    /\ GeoIdle
    /\ OcrIdle
    /\ PostIdle
    /\ BatchIdle
    /\ SarIdle
    /\ PixIdle
    /\ score_pc = "input"
    /\ \E inp \in BoxScoreInputs :
          /\ pred = inp.pred
          /\ rotated_bbox = inp.rotated_bbox
          /\ points = inp.points
    /\ score = <<>>
    /\ box_thresh \in Thresholds
    /\ kept = FALSE

\* score = self.box_score(pred, points, rotated_bbox)
BoxScore ==
    /\ score_pc = "input"
    /\ score' = box_score(pred, MapHeight, MapWidth, points, rotated_bbox)
    /\ score_pc' = "scored"
    /\ UNCHANGED <<pred, rotated_bbox, points, box_thresh, kept>>
    /\ ScoreOnly

\* "Discard candidates with score < box_thresh"
Discarded(q, t) == Less(q, t)

Filter ==
    /\ score_pc = "scored"
    /\ kept' = ~Discarded(score, box_thresh)
    /\ score_pc' = "filtered"
    /\ UNCHANGED <<pred, rotated_bbox, points, score, box_thresh>>
    /\ ScoreOnly

NextScore == BoxScore \/ Filter

SpecScore == InitScore /\ [][NextScore]_vars

-----------------------------------------------------------------------------
(* DetectionPostProcessor.__call__ (detection/core.py).  The batch is a     *)
(* tensor, so its pages share one height; a page is held as its values at   *)
(* the sample positions (binarization is pixelwise).  The functions the     *)
(* loop calls are not part of the file (cv2.morphologyEx, get_bitmap_angle, *)
(* rotate_page, the abstract bitmap_to_boxes): each is kept as the term of  *)
(* its arguments, so that what a result was computed from can be read off   *)
(* the result.                                                              *)

MaxBatch == 2

SamplePositions == {1, 2}
ProbMaps == [SamplePositions -> {200, 500, 700}]
Heights == {256, 511, 512, 1024}
BinThresholds == {300, 500}

\* tf.cast(proba_map > self.bin_thresh, tf.float32) on one page, line 111
Binarized(m, t) == [x \in DOMAIN m |-> IF m[x] > t THEN 1 ELSE 0]

\* Mutant: the quotient is rounded up
KernelSize_ceil(h) == 1 + ((h + 511) \div 512)

\* 1 + int(proba_map[0].shape[0] / 512), line 118
KernelSize(h) == 1 + (h \div 512)

\* cv2.morphologyEx(bitmap_, cv2.MORPH_OPEN, kernel)
morphologyEx(b, k) == [opened |-> b, kernel |-> k]

\* get_bitmap_angle(bitmap_): `times` is the factor applied to the estimate
get_bitmap_angle(b) == [skew_of |-> b, times |-> 1]

\* Mutant: the page is rotated by the angle itself
Minus_same(a) == a

\* -angle, line 129
Minus(a) == [a EXCEPT !.times = -a.times]

\* rotate_page(image, angle)
rotate_page(image, a) == [rotated |-> image, by |-> a]

\* self.bitmap_to_boxes(pred=p_, bitmap=bitmap_)
bitmap_to_boxes(p, b) == [boxes_of |-> p, on |-> b]

\* a batch of 1 to MaxBatch probability maps of one height
InitPost ==
    /\ BuilderNew
    /\ BackendIdle
    /\ CropIdle
    /\ RenderIdle
    /\ GeoIdle
    /\ OcrIdle
    /\ ScoreIdle
    /\ BatchIdle
    /\ SarIdle
    /\ PixIdle
    /\ post_pc = "binarize"
    /\ bin_thresh \in BinThresholds
    /\ \E h \in Heights, ms \in SeqsUpTo(ProbMaps, MaxBatch) \ {<<>>} :
          proba_map = [height |-> h, maps |-> ms]
    /\ bitmap = <<>>
    /\ k_size = 0
    /\ page_no = 0
    /\ p_ = <<>>
    /\ bitmap_ = <<>>
    /\ angle = <<>>
    /\ boxes_batch = <<>>
    /\ angles_batch = <<>>
    /\ post_result = <<>>

\* lines 110-119: binarize the batch, unstack both tensors, size the kernel
Binarize ==
    /\ post_pc = "binarize"
    /\ bitmap' = [i \in 1..Len(proba_map.maps) |->
                     Binarized(proba_map.maps[i], bin_thresh)]
    /\ proba_map' = proba_map.maps
    /\ k_size' = KernelSize(proba_map.height)
    /\ boxes_batch' = <<>>
    /\ angles_batch' = <<>>
    /\ page_no' = 1
    /\ post_pc' = "open"
    /\ UNCHANGED <<bin_thresh, p_, bitmap_, angle, post_result>>
    /\ PostOnly

\* lines 121-125: the next pair of the two lists, the bitmap opened
Open ==
    /\ post_pc = "open"
    /\ p_' = proba_map[page_no]
    /\ bitmap_' = morphologyEx(bitmap[page_no], k_size)
    /\ post_pc' = "estimate"
    /\ UNCHANGED <<bin_thresh, proba_map, bitmap, k_size, page_no, angle,
                   boxes_batch, angles_batch, post_result>>
    /\ PostOnly

\* lines 127-128
Estimate ==
    /\ post_pc = "estimate"
    /\ angle' = get_bitmap_angle(bitmap_)
    /\ angles_batch' = Append(angles_batch, angle')
    /\ post_pc' = "rotate"
    /\ UNCHANGED <<bin_thresh, proba_map, bitmap, k_size, page_no, p_, bitmap_,
                   boxes_batch, post_result>>
    /\ PostOnly

\* line 129
Rotate ==
    /\ post_pc = "rotate"
    /\ bitmap_' = rotate_page(bitmap_, Minus(angle))
    /\ p_' = rotate_page(p_, Minus(angle))
    /\ post_pc' = "extract"
    /\ UNCHANGED <<bin_thresh, proba_map, bitmap, k_size, page_no, angle,
                   boxes_batch, angles_batch, post_result>>
    /\ PostOnly

\* lines 130-131, and the loop's advance
Extract ==
    /\ post_pc = "extract"
    /\ boxes_batch' = Append(boxes_batch, bitmap_to_boxes(p_, bitmap_))
    /\ IF page_no < Len(proba_map)
       THEN page_no' = page_no + 1 /\ post_pc' = "open"
       ELSE page_no' = page_no /\ post_pc' = "return"
    /\ UNCHANGED <<bin_thresh, proba_map, bitmap, k_size, p_, bitmap_, angle,
                   angles_batch, post_result>>
    /\ PostOnly

\* line 133
PostReturn ==
    /\ post_pc = "return"
    /\ post_result' = <<boxes_batch, angles_batch>>
    /\ post_pc' = "returned"
    /\ UNCHANGED <<bin_thresh, proba_map, bitmap, k_size, page_no, p_, bitmap_,
                   angle, boxes_batch, angles_batch>>
    /\ PostOnly

NextPost == Binarize \/ Open \/ Estimate \/ Rotate \/ Extract \/ PostReturn

SpecPost == InitPost /\ [][NextPost]_vars

-----------------------------------------------------------------------------
(* PreProcessor.batch_inputs (preprocessor.py).  The quotient               *)
(* len(x) / batch_size is kept exactly, as <<len(x), batch_size>>; a batch  *)
(* is the sequence of its samples.                                          *)

MaxSamples == 8
MaxBatchSize == 4

\* int(num_batches), lines 81 and 84
IntPart(q) == q[1] \div q[2]

\* Mutant: the rest is appended also when it is empty
HasRest_ge(q) == q[1] >= IntPart(q) * q[2]

\* num_batches > int(num_batches), line 83
HasRest(q) == q[1] > IntPart(q) * q[2]

\* n distinct samples and a batch size
InitBatch ==
    /\ BuilderNew
    /\ BackendIdle
    /\ CropIdle
    /\ RenderIdle
    /\ GeoIdle
    /\ OcrIdle
    /\ ScoreIdle
    /\ PostIdle
    /\ SarIdle
    /\ PixIdle
    /\ batch_pc = "count"
    /\ batch_size \in 1..MaxBatchSize
    /\ \E n \in 0..MaxSamples : batch_x = [i \in 1..n |-> i]
    /\ num_batches = <<>>
    /\ batch_idx = 0
    /\ b_images = <<>>
    /\ batch_result = <<>>

\* line 77
CountBatches ==
    /\ batch_pc = "count"
    /\ num_batches' = <<Len(batch_x), batch_size>>
    /\ batch_idx' = 0
    /\ b_images' = <<>>
    /\ batch_pc' = "full"
    /\ UNCHANGED <<batch_size, batch_x, batch_result>>
    /\ BatchOnly

\* one element of the comprehension of lines 80-81
FullBatch ==
    /\ batch_pc = "full"
    /\ batch_idx < IntPart(num_batches)
    /\ b_images' = Append(b_images, Slice(batch_x, batch_idx * batch_size,
                                          (batch_idx + 1) * batch_size))
    /\ batch_idx' = batch_idx + 1
    /\ UNCHANGED <<batch_pc, batch_size, batch_x, num_batches, batch_result>>
    /\ BatchOnly

\* the comprehension is exhausted
FullBatchesDone ==
    /\ batch_pc = "full"
    /\ batch_idx = IntPart(num_batches)
    /\ batch_pc' = "rest"
    /\ UNCHANGED <<batch_size, batch_x, num_batches, batch_idx, b_images, batch_result>>
    /\ BatchOnly

\* lines 83-86
RestAndReturn ==
    /\ batch_pc = "rest"
    /\ b_images' = IF HasRest(num_batches)
                    THEN Append(b_images,
                                Slice(batch_x, IntPart(num_batches) * batch_size, Len(batch_x)))
                    ELSE b_images
    /\ batch_result' = <<b_images'>>
    /\ batch_pc' = "returned"
    /\ UNCHANGED <<batch_size, batch_x, num_batches, batch_idx>>
    /\ BatchOnly

NextBatch == CountBatches \/ FullBatch \/ FullBatchesDone \/ RestAndReturn

SpecBatch == InitBatch /\ [][NextBatch]_vars

-----------------------------------------------------------------------------
(* SARPostProcessor.__call__ (recognition/sar.py).  A text is the sequence  *)
(* of its characters, so that joining the labels of a sample and splitting  *)
(* the joined text at the text "<eos>" are computed on characters, as       *)
(* tf.strings.reduce_join and tf.strings.split do.  Classes are 0-based as  *)
(* in the code; the values of a step are a sequence, class c at position    *)
(* c + 1.                                                                   *)

MaxSteps == 2

\* the labels of label_to_idx, in the order of their indices 0..5
Vocab == <<"<", "e", "o", "s", ">", "E">>

\* label_mapping['<eos>'] = int(len(label_mapping)), line 223
EosClass == Len(Vocab)

\* the text "<eos>"
EosText == <<"<", "e", "o", "s", ">">>

\* tf.math.argmax over the classes: the first class holding the maximum
ArgMax(row) ==
    CHOOSE c \in 0..(Len(row) - 1) :
        /\ \A k \in 1..Len(row) : row[k] <= row[c + 1]
        /\ \A k \in 1..c : row[k] < row[c + 1]

\* tf_label_to_idx[c], lines 224-227: the label of class c as a text
LabelText(c) == IF c = EosClass THEN EosText ELSE <<Vocab[c + 1]>>

\* tf.strings.reduce_join of the labels of one sample, line 231
RECURSIVE reduce_join(_)
reduce_join(cs) ==
    IF cs = <<>> THEN <<>> ELSE LabelText(Head(cs)) \o reduce_join(Tail(cs))

\* tf.strings.split(text, "<eos>") and its piece 0, lines 232-233
FirstPiece(text) ==
    LET n == Len(EosText)
        hits == {i \in 1..(Len(text) - n + 1) : SubSeq(text, i, i + n - 1) = EosText}
    IN  IF hits = {} THEN text
        ELSE SubSeq(text, 1, (CHOOSE i \in hits : \A j \in hits : i <= j) - 1)

\* str.lower on one character of the vocabulary
Lower(ch) == IF ch = "E" THEN "e" ELSE ch

\* the values of one step: all on one class, or equal on all classes
OneHot(c) == [k \in 1..(EosClass + 1) |-> IF k = c + 1 THEN 1 ELSE 0]
Flat == [k \in 1..(EosClass + 1) |-> 0]

\* Logits (B, T, C): one sample of as many steps as "<eos>" has characters,
\* each step on a character of that text or on the <eos> class; or two
\* samples of MaxSteps steps on "e", "E", <eos> or no class in particular
SarInputs ==
    {[logits |-> <<r>>, ignore_case |-> FALSE, ignore_accents |-> FALSE] :
        r \in [1..Len(EosText) -> {OneHot(c) : c \in (0..4) \cup {EosClass}}]}
    \cup
    {[logits |-> <<r1, r2>>, ignore_case |-> ic, ignore_accents |-> ia] :
        r1 \in [1..MaxSteps -> {OneHot(1), OneHot(5), OneHot(EosClass), Flat}],
        r2 \in [1..MaxSteps -> {OneHot(1), OneHot(5), OneHot(EosClass), Flat}],
        ic \in BOOLEAN, ia \in BOOLEAN}

InitSar ==
    /\ BuilderNew
    /\ BackendIdle
    /\ CropIdle
    /\ RenderIdle
    /\ GeoIdle
    /\ OcrIdle
    /\ ScoreIdle
    /\ PostIdle
    /\ BatchIdle
    /\ PixIdle
    /\ sar_pc = "argmax"
    /\ \E inp \in SarInputs :
          /\ logits = inp.logits
          /\ ignore_case = inp.ignore_case
          /\ ignore_accents = inp.ignore_accents
    /\ sar_pred = <<>>
    /\ decoded_strings_pred = <<>>
    /\ words_list = <<>>
    /\ sar_raised = ""

\* line 219
SarArgMax ==
    /\ sar_pc = "argmax"
    /\ sar_pred' = [b \in 1..Len(logits) |->
                      [t \in 1..Len(logits[b]) |-> ArgMax(logits[b][t])]]
    /\ sar_pc' = "join"
    /\ UNCHANGED <<ignore_case, ignore_accents, logits, decoded_strings_pred,
                   words_list, sar_raised>>
    /\ SarOnly

\* lines 222-231
SarJoin ==
    /\ sar_pc = "join"
    /\ decoded_strings_pred' = [b \in 1..Len(sar_pred) |-> reduce_join(sar_pred[b])]
    /\ sar_pc' = "split"
    /\ UNCHANGED <<ignore_case, ignore_accents, logits, sar_pred, words_list,
                   sar_raised>>
    /\ SarOnly

\* lines 232-233
SarSplit ==
    /\ sar_pc = "split"
    /\ decoded_strings_pred' =
          [b \in 1..Len(decoded_strings_pred) |-> FirstPiece(decoded_strings_pred[b])]
    /\ sar_pc' = "words"
    /\ UNCHANGED <<ignore_case, ignore_accents, logits, sar_pred, words_list,
                   sar_raised>>
    /\ SarOnly

\* lines 234-242
SarWords ==
    /\ sar_pc = "words"
    /\ IF ignore_accents
       THEN /\ sar_raised' = "NotImplementedError"
            /\ sar_pc' = "raised"
            /\ UNCHANGED words_list
       ELSE /\ words_list' =
                  IF ignore_case
                  THEN [b \in 1..Len(decoded_strings_pred) |->
                          [i \in 1..Len(decoded_strings_pred[b]) |->
                              Lower(decoded_strings_pred[b][i])]]
                  ELSE decoded_strings_pred
            /\ sar_pc' = "returned"
            /\ UNCHANGED sar_raised
    /\ UNCHANGED <<ignore_case, ignore_accents, logits, sar_pred, decoded_strings_pred>>
    /\ SarOnly

NextSar == SarArgMax \/ SarJoin \/ SarSplit \/ SarWords

SpecSar == InitSar /\ [][NextSar]_vars

-----------------------------------------------------------------------------
(* pixmap_to_numpy (documents/reader.py).  An image is the sequence of its  *)
(* pixels in row order, a pixel the sequence of its channel values.  A fitz *)
(* pixmap holds its pixels as <<r, g, b>>; cv2.imdecode returns them in     *)
(* OpenCV's channel order, <<b, g, r>>.                                     *)

MaxPixels == 2

ChannelValues == {0, 255}
ChannelOrders == {"RGB", "BGR", "rgb", "false", ""}

\* x[::-1]
Reversed(q) == [i \in 1..Len(q) |-> q[Len(q) + 1 - i]]

\* cv2.imdecode of the encoded pixmap, lines 140-142
imdecode(pm) == [i \in 1..Len(pm) |-> Reversed(pm[i])]

\* Mutant: the channel axis is left as decoded
ChannelsReversed_not(im) == im

\* img[:, :, ::-1], line 144
ChannelsReversed(im) == [i \in 1..Len(im) |-> Reversed(im[i])]

InitPix ==
    /\ BuilderNew
    /\ BackendIdle
    /\ CropIdle
    /\ RenderIdle
    /\ GeoIdle
    /\ OcrIdle
    /\ ScoreIdle
    /\ PostIdle
    /\ BatchIdle
    /\ SarIdle
    /\ pix_pc = "decode"
    /\ pixmap \in SeqsUpTo([1..3 -> ChannelValues], MaxPixels) \ {<<>>}
    /\ channel_order \in ChannelOrders
    /\ img = <<>>
    /\ pix_result = <<>>
    /\ pix_raised = ""

\* lines 140-142
PixDecode ==
    /\ pix_pc = "decode"
    /\ img' = imdecode(pixmap)
    /\ pix_pc' = "order"
    /\ UNCHANGED <<pixmap, channel_order, pix_result, pix_raised>>
    /\ PixOnly

\* lines 143-148
PixOrder ==
    /\ pix_pc = "order"
    /\ IF channel_order = "RGB"
       THEN /\ pix_result' = ChannelsReversed(img)
            /\ pix_pc' = "returned"
            /\ UNCHANGED pix_raised
       ELSE IF channel_order = "BGR"
       THEN /\ pix_result' = img
            /\ pix_pc' = "returned"
            /\ UNCHANGED pix_raised
       ELSE /\ pix_raised' = "Exception"
            /\ pix_pc' = "raised"
            /\ UNCHANGED pix_result
    /\ UNCHANGED <<pixmap, channel_order, img>>
    /\ PixOnly

NextPix == PixDecode \/ PixOrder

SpecPix == InitPix /\ [][NextPix]_vars

-----------------------------------------------------------------------------
(* doctr.utils.geometry: resolve_enclosing_bbox, bbox_to_polygon and       *)
(* polygon_to_bbox.  The module is not among the sources held here; its    *)
(* functions are written from their description and from the values its    *)
(* tests (test_utils_geometry.py) expect.  A point is <<x, y>>, a          *)
(* two-corner box <<first corner, second corner>>, a polygon a sequence    *)
(* of points; coordinates are in thousandths.                              *)

\* the longest list given to resolve_enclosing_bbox
MaxEnclosed == 2

\* the coordinates of the tests: 0, 0.5, 1 across and 0, 0.25, 0.5 down
GeoXs == {0, 500, 1000}
GeoYs == {0, 250, 500}

GeoPoints == GeoXs \X GeoYs

\* every pair of corners, whichever way round (the first box of
\* test_resolve_enclosing_bbox has its larger y in its first corner)
TwoCornerBoxes == GeoPoints \X GeoPoints

Min(S) == CHOOSE a \in S : \A b \in S : a <= b

Max(S) == CHOOSE a \in S : \A b \in S : a >= b

\* the corners of all the boxes of a list
CornersOf(bxs) == {bxs[ij[1]][ij[2]] : ij \in (1..Len(bxs)) \X (1..2)}

\* min of the first corners, max of the second corners
resolve_enclosing_bbox_corners(bxs) ==
    LET n == 1..Len(bxs)
    IN  <<<<Min({bxs[i][1][1] : i \in n}), Min({bxs[i][1][2] : i \in n})>>,
          <<Max({bxs[i][2][1] : i \in n}), Max({bxs[i][2][2] : i \in n})>>>>

\* the minimal axis-aligned box covering all inputs
resolve_enclosing_bbox(bxs) ==
    LET x == {p[1] : p \in CornersOf(bxs)}
        y == {p[2] : p \in CornersOf(bxs)}
    IN  <<<<Min(x), Min(y)>>, <<Max(x), Max(y)>>>>

\* the corners taken clockwise
bbox_to_polygon_clockwise(b) ==
    <<b[1], <<b[2][1], b[1][2]>>, b[2], <<b[1][1], b[2][2]>>>>

\* test_bbox_to_polygon: ((0, 0), (1, 1)) gives ((0, 0), (1, 0), (0, 1), (1, 1))
bbox_to_polygon(b) ==
    <<b[1], <<b[2][1], b[1][2]>>, <<b[1][1], b[2][2]>>, b[2]>>

\* test_polygon_to_bbox: the extreme coordinates over all points, as two corners
polygon_to_bbox(poly) ==
    LET x == {poly[i][1] : i \in 1..Len(poly)}
        y == {poly[i][2] : i \in 1..Len(poly)}
    IN  <<<<Min(x), Min(y)>>, <<Max(x), Max(y)>>>>

\* the arguments: a list of boxes for resolve_enclosing_bbox, or one box for
\* bbox_to_polygon
InitGeo ==
    /\ BuilderNew
    /\ BackendIdle
    /\ CropIdle
    /\ RenderIdle
    /\ OcrIdle
    /\ ScoreIdle
    /\ PostIdle
    /\ BatchIdle
    /\ SarIdle
    /\ PixIdle
    /\ geo_pc = "input"
    /\ \/ /\ bboxes \in SeqsUpTo(TwoCornerBoxes, MaxEnclosed) \ {<<>>}
          /\ bbox = <<>>
       \/ /\ bboxes = <<>>
          /\ bbox \in TwoCornerBoxes
    /\ polygon = <<>>
    /\ geo_result = <<>>

ResolveEnclosing ==
    /\ geo_pc = "input"
    /\ bboxes # <<>>
    /\ geo_result' = resolve_enclosing_bbox(bboxes)
    /\ geo_pc' = "enclosed"
    /\ UNCHANGED <<bboxes, bbox, polygon>>
    /\ GeoOnly

BboxToPolygon ==
    /\ geo_pc = "input"
    /\ bbox # <<>>
    /\ polygon' = bbox_to_polygon(bbox)
    /\ geo_pc' = "polygon"
    /\ UNCHANGED <<bboxes, bbox, geo_result>>
    /\ GeoOnly

PolygonToBbox ==
    /\ geo_pc = "polygon"
    /\ geo_result' = polygon_to_bbox(polygon)
    /\ geo_pc' = "bbox"
    /\ UNCHANGED <<bboxes, bbox, polygon>>
    /\ GeoOnly

NextGeo == ResolveEnclosing \/ BboxToPolygon \/ PolygonToBbox

SpecGeo == InitGeo /\ [][NextGeo]_vars

-----------------------------------------------------------------------------
(* doctr.documents.elements: render() of Word, Line, Block, Page and       *)
(* Document.  The module is not among the sources held here; render() is   *)
(* written from the texts its tests (test_documents.py) expect.  A text is *)
(* a sequence of one-character strings; an element is a record of its      *)
(* kind, its children (none for a Word) and its value (a Word's text).     *)

\* the most children an element of the inputs has
MaxChildren == 2

Hello == <<"h", "e", "l", "l", "o">>

World == <<"w", "o", "r", "l", "d">>

Element(kind, children) == [kind |-> kind, children |-> children, value |-> <<>>]

WordElement(text) == [kind |-> "Word", children |-> <<>>, value |-> text]

\* _mock_words: the words "hello" and "world"
MockWords == {WordElement(Hello), WordElement(World)}

\* a Line holds at least one Word and a Block at least one Line (their
\* geometry is resolved from their children); a Page or a Document may be empty
RenderLines ==
    {Element("Line", ws) : ws \in SeqsUpTo(MockWords, MaxChildren) \ {<<>>}}

RenderBlocks ==
    {Element("Block", ls) : ls \in SeqsUpTo(RenderLines, MaxChildren) \ {<<>>}}

\* _mock_lines, _mock_blocks, _mock_pages: elements built of "hello world",
\* with a one-word line and a one-line block beside them
MockLine == Element("Line", <<WordElement(Hello), WordElement(World)>>)

MockBlocks ==
    {Element("Block", <<MockLine, MockLine>>),
     Element("Block", <<Element("Line", <<WordElement(World)>>)>>),
     Element("Block", <<MockLine>>)}

RenderPages == {Element("Page", bs) : bs \in SeqsUpTo(MockBlocks, MaxChildren)}

MockPages ==
    {Element("Page", <<Element("Block", <<MockLine, MockLine>>),
                       Element("Block", <<MockLine, MockLine>>)>>),
     Element("Page", <<Element("Block", <<MockLine>>)>>),
     Element("Page", <<>>)}

RenderDocuments ==
    {Element("Document", ps) : ps \in SeqsUpTo(MockPages, MaxChildren)}

\* str.join with the separator also put after the last text
RECURSIVE JoinTexts_trailing(_, _)
JoinTexts_trailing(sep, texts) ==
    IF texts = <<>> THEN <<>>
    ELSE Head(texts) \o sep \o JoinTexts_trailing(sep, Tail(texts))

\* sep.join(texts)
RECURSIVE JoinTexts(_, _)
JoinTexts(sep, texts) ==
    IF texts = <<>> THEN <<>>
    ELSE IF Len(texts) = 1 THEN Head(texts)
    ELSE Head(texts) \o sep \o JoinTexts(sep, Tail(texts))

\* test_line "hello world", test_block "hello world\nhello world", test_page
\* "...\n\n...", test_document "...\n\n\n\n..."
Separator(kind) ==
    CASE kind = "Line" -> <<" ">>
      [] kind = "Block" -> <<"\n">>
      [] kind = "Page" -> <<"\n", "\n">>
      [] kind = "Document" -> <<"\n", "\n", "\n", "\n">>

RECURSIVE render(_)
render(e) ==
    IF e.kind = "Word" THEN e.value
    ELSE JoinTexts(Separator(e.kind),
                   [i \in 1..Len(e.children) |-> render(e.children[i])])

InitRender ==
    /\ BuilderNew
    /\ BackendIdle
    /\ CropIdle
    /\ OcrIdle
    /\ ScoreIdle
    /\ PostIdle
    /\ BatchIdle
    /\ SarIdle
    /\ PixIdle
    /\ GeoIdle
    /\ render_pc = "input"
    /\ element \in MockWords \cup RenderLines \cup RenderBlocks \cup RenderPages
                   \cup RenderDocuments
    /\ rendered = <<>>

Render ==
    /\ render_pc = "input"
    /\ rendered' = render(element)
    /\ render_pc' = "rendered"
    /\ UNCHANGED element
    /\ RenderOnly

NextRender == Render

SpecRender == InitRender /\ [][NextRender]_vars

-----------------------------------------------------------------------------
(* crop_detection (transforms/functional/tensorflow.py, lines 62-96).  A    *)
(* box is a row <<xmin, ymin, xmax, ymax>>: whole pixels in an array of     *)
(* dtype int, thousandths of the image side in an array of dtype float.     *)
(* The image is 5 by 5 pixels, so that a crop bound divided by a side is a  *)
(* whole number of thousandths.                                             *)

\* the most rows of `boxes`
MaxCropBoxes == 2

\* img.shape
CropImageShape == <<5, 5, 3>>

CropBoxes == {<<2, 2, 4, 4>>, <<0, 0, 5, 3>>}

\* the extents of a box along one axis, in pixels: left of the first crop box,
\* across its near edge, touching its far edge, of no width, and back to front
AbsIntervals == {<<0, 1>>, <<1, 3>>, <<4, 5>>, <<3, 3>>, <<4, 1>>}

\* the same in thousandths of the side
RelIntervals ==
    {<<0, 200>>, <<300, 500>>, <<800, 1000>>, <<500, 500>>, <<900, 100>>}

BoxRows(intervals) ==
    {<<ix[1], iy[1], ix[2], iy[2]>> : ix \in intervals, iy \in intervals}

BoxArrays ==
    {[dtype |-> "int", rows |-> r] : r \in SeqsUpTo(BoxRows(AbsIntervals), MaxCropBoxes)}
    \cup
    {[dtype |-> "float", rows |-> r] :
        r \in SeqsUpTo(BoxRows(RelIntervals), MaxCropBoxes)}

\* tf.image.crop_to_bounding_box(img, ymin, xmin, ymax - ymin, xmax - xmin)
crop_to_bounding_box(image, offset_height, offset_width, target_height, target_width) ==
    [cropped |-> image, offset |-> <<offset_height, offset_width>>,
     target |-> <<target_height, target_width>>]

\* lines 81-89: the bounds the boxes are clipped to, <<xmin, ymin, xmax, ymax>>;
\* for relative boxes xmin / w, ymin / h, xmax / w, ymax / h, in thousandths
ClipBounds(dtype, shape, cb) ==
    IF dtype = "int" THEN cb
    ELSE LET h == shape[1]
             w == shape[2]
         IN  <<(1000 * cb[1]) \div w, (1000 * cb[2]) \div h,
               (1000 * cb[3]) \div w, (1000 * cb[4]) \div h>>

\* lines 83-84 and 88-89 on one row
ClippedRow(row, bd) ==
    <<Clip(row[1], bd[1], bd[3]), Clip(row[2], bd[2], bd[4]),
      Clip(row[3], bd[1], bd[3]), Clip(row[4], bd[2], bd[4])>>

\* Mutant: np.logical_and for np.logical_or
EmptyBox_and(row) == row[2] = row[4] /\ row[1] = row[3]

\* lines 92-94: zero_height or zero_width
EmptyBox(row) == row[2] = row[4] \/ row[1] = row[3]

\* boxes[~empty_boxes], line 95
RECURSIVE WithoutEmpty(_)
WithoutEmpty(rows) ==
    IF rows = <<>> THEN <<>>
    ELSE IF EmptyBox(Head(rows)) THEN WithoutEmpty(Tail(rows))
    ELSE <<Head(rows)>> \o WithoutEmpty(Tail(rows))

InitCrop ==
    /\ BuilderNew
    /\ BackendIdle
    /\ OcrIdle
    /\ ScoreIdle
    /\ PostIdle
    /\ BatchIdle
    /\ SarIdle
    /\ PixIdle
    /\ GeoIdle
    /\ RenderIdle
    /\ crop_pc = "input"
    /\ crop_img = CropImageShape
    /\ crop_boxes \in BoxArrays
    /\ crop_box \in CropBoxes
    /\ boxes_given = crop_boxes.rows
    /\ croped_img = <<>>
    /\ crop_result = <<>>

\* lines 77-89: the image is cropped and the rows of `boxes` are clipped in
\* place
ClipBoxes ==
    /\ crop_pc = "input"
    /\ croped_img' = crop_to_bounding_box(crop_img, crop_box[2], crop_box[1],
                                          crop_box[4] - crop_box[2],
                                          crop_box[3] - crop_box[1])
    /\ crop_boxes' =
          [crop_boxes EXCEPT !.rows =
              [i \in 1..Len(crop_boxes.rows) |->
                  ClippedRow(crop_boxes.rows[i],
                             ClipBounds(crop_boxes.dtype, crop_img, crop_box))]]
    /\ crop_pc' = "clipped"
    /\ UNCHANGED <<crop_img, crop_box, boxes_given, crop_result>>
    /\ CropOnly

\* lines 91-97: the rows of no height or no width are dropped from a new array
RemoveEmpty ==
    /\ crop_pc = "clipped"
    /\ crop_result' = <<croped_img, WithoutEmpty(crop_boxes.rows)>>
    /\ crop_pc' = "returned"
    /\ UNCHANGED <<crop_img, crop_boxes, crop_box, boxes_given, croped_img>>
    /\ CropOnly

NextCrop == ClipBoxes \/ RemoveEmpty

SpecCrop == InitCrop /\ [][NextCrop]_vars

-----------------------------------------------------------------------------
(* doctr/file_utils.py (lines 21-80) and the import of the package          *)
(* (doctr/__init__.py).  A text is a sequence of one-character strings, so  *)
(* that str.upper is computed.  The environment maps the names of the       *)
(* variables that are set to their values; find_spec and                    *)
(* importlib_metadata.version are read off `modules` and `distributions`.   *)

ENV_VARS_TRUE_VALUES ==
    {<<"1">>, <<"O", "N">>, <<"Y", "E", "S">>, <<"T", "R", "U", "E">>}

\* Mutant: AUTO is not among the values
ENV_VARS_TRUE_AND_AUTO_VALUES_true == ENV_VARS_TRUE_VALUES

ENV_VARS_TRUE_AND_AUTO_VALUES == ENV_VARS_TRUE_VALUES \cup {<<"A", "U", "T", "O">>}

\* the values a variable is set to: those of ENV_VARS_TRUE_AND_AUTO_VALUES in
\* upper, lower or mixed case, and two that are in neither set
EnvValues ==
    {<<"0">>, <<"1">>, <<"O", "N">>, <<"o", "n">>, <<"Y", "E", "S">>, <<"Y", "e", "s">>,
     <<"T", "R", "U", "E">>, <<"t", "r", "u", "e">>, <<"A", "U", "T", "O">>,
     <<"a", "u", "t", "o">>, <<"A", "u", "t", "o">>, <<"O", "F", "F">>}

Environments ==
    UNION {[names -> EnvValues] : names \in SUBSET {"USE_TF", "USE_TORCH"}}

\* the module names find_spec is asked for
ModuleNames == {"torch", "tensorflow"}

\* the distributions whose metadata may be installed, with a major version
Installations ==
    UNION {[names -> {1, 2}] : names \in SUBSET {"torch", "tensorflow", "tensorflow-cpu"}}

\* os.environ.get(name, default)
EnvironGet(env, name, default) == IF name \in DOMAIN env THEN env[name] ELSE default

\* str.upper, on the letters of EnvValues
UpperLetters ==
    [a |-> "A", e |-> "E", n |-> "N", o |-> "O", r |-> "R", s |-> "S", t |-> "T",
     u |-> "U"]

Upper(text) ==
    [i \in 1..Len(text) |->
        IF text[i] \in DOMAIN UpperLetters THEN UpperLetters[text[i]] ELSE text[i]]

\* the tuple of lines 44-54
TfCandidates ==
    <<"tensorflow", "tensorflow-cpu", "tensorflow-gpu", "tf-nightly", "tf-nightly-cpu",
      "tf-nightly-gpu", "intel-tensorflow", "tensorflow-rocm", "tensorflow-macos">>

\* lines 55-62: the version of the first candidate that is installed, 0 for None
TfVersion(dists) ==
    LET found == {i \in 1..Len(TfCandidates) : TfCandidates[i] \in DOMAIN dists}
    IN  IF found = {} THEN 0
        ELSE dists[TfCandidates[CHOOSE i \in found : \A j \in found : i <= j]]

\* lines 28-38
TorchAvailable(use_tf, use_torch, mods, dists) ==
    IF use_torch \in ENV_VARS_TRUE_AND_AUTO_VALUES /\ use_tf \notin ENV_VARS_TRUE_VALUES
    THEN "torch" \in mods /\ "torch" \in DOMAIN dists
    ELSE FALSE

\* lines 41-72
TfAvailable(use_tf, use_torch, mods, dists) ==
    IF use_tf \in ENV_VARS_TRUE_AND_AUTO_VALUES /\ use_torch \notin ENV_VARS_TRUE_VALUES
    THEN /\ "tensorflow" \in mods
         /\ TfVersion(dists) # 0
         /\ ~(TfVersion(dists) < 2)
    ELSE FALSE

InitBackend ==
    /\ BuilderNew
    /\ OcrIdle
    /\ ScoreIdle
    /\ PostIdle
    /\ BatchIdle
    /\ SarIdle
    /\ PixIdle
    /\ GeoIdle
    /\ RenderIdle
    /\ CropIdle
    /\ backend_pc = "env"
    /\ environ \in Environments
    /\ modules \in SUBSET ModuleNames
    /\ distributions \in Installations
    /\ USE_TF = <<>>
    /\ USE_TORCH = <<>>
    /\ _torch_available = FALSE
    /\ _tf_available = FALSE
    /\ imported = <<>>

\* lines 24-25
ReadEnvironment ==
    /\ backend_pc = "env"
    /\ USE_TF' = Upper(EnvironGet(environ, "USE_TF", <<"1">>))
    /\ USE_TORCH' = Upper(EnvironGet(environ, "USE_TORCH", <<"0">>))
    /\ backend_pc' = "torch"
    /\ UNCHANGED <<environ, modules, distributions, _torch_available, _tf_available,
                   imported>>
    /\ BackendOnly

\* lines 28-38
CheckTorch ==
    /\ backend_pc = "torch"
    /\ _torch_available' = TorchAvailable(USE_TF, USE_TORCH, modules, distributions)
    /\ backend_pc' = "tf"
    /\ UNCHANGED <<environ, modules, distributions, USE_TF, USE_TORCH, _tf_available,
                   imported>>
    /\ BackendOnly

\* lines 41-72
CheckTf ==
    /\ backend_pc = "tf"
    /\ _tf_available' = TfAvailable(USE_TF, USE_TORCH, modules, distributions)
    /\ backend_pc' = "import"
    /\ UNCHANGED <<environ, modules, distributions, USE_TF, USE_TORCH, _torch_available,
                   imported>>
    /\ BackendOnly

\* doctr/__init__.py, lines 4-7
ImportPackage ==
    /\ backend_pc = "import"
    /\ imported' = IF _tf_available
                   THEN <<"datasets", "documents", "models", "transforms", "utils">>
                   ELSE IF _torch_available THEN <<"documents", "models", "utils">>
                   ELSE <<>>
    /\ backend_pc' = "imported"
    /\ UNCHANGED <<environ, modules, distributions, USE_TF, USE_TORCH, _torch_available,
                   _tf_available>>
    /\ BackendOnly

NextBackend == ReadEnvironment \/ CheckTorch \/ CheckTf \/ ImportPackage

SpecBackend == InitBackend /\ [][NextBackend]_vars

-----------------------------------------------------------------------------
(* Vocabulary of the properties                                            *)

RECURSIVE Flatten(_)
Flatten(ss) == IF ss = <<>> THEN <<>> ELSE Head(ss) \o Flatten(Tail(ss))

\* The pages _build_blocks has returned for so far
Built == 1..Len(_pages)

\* Number of boxes of the pages before page k
Offset(k) == SumLen(SubSeq(boxes, 1, k - 1))

IsPermutation(s, n) ==
    /\ Len(s) = n
    /\ \A j \in 1..n : Cardinality({p \in 1..n : s[p] = j}) = 1

Returned == pc = "done" /\ raised = "" /\ Len(result) = 1

\* The Pages of the Document returned
doc == result[1]

-----------------------------------------------------------------------------
(* C1: every assembled page of N >= 1 boxes holds exactly one Block, whose  *)
(* Lines hold N Words in all, and every box index is used by exactly one    *)
(* Word, with lines resolved or not.                                        *)

C1_WordCountAndIndices ==
    \A k \in Built :
        Len(boxes[k]) >= 1 =>
            /\ Len(_pages[k].blocks) = 1
            /\ Len(Flatten(_pages[k].blocks[1])) = Len(boxes[k])
            /\ IsPermutation(Flatten(lines[k]), Len(boxes[k]))
            /\ Len(_pages[k].blocks[1]) = Len(lines[k])
            /\ \A l \in 1..Len(lines[k]) :
                   Len(_pages[k].blocks[1][l]) = Len(lines[k][l])

C1_Witness ==
    /\ Returned
    /\ resolve_lines = TRUE
    /\ Len(doc) = 1
    /\ Len(boxes[1]) = MaxBoxes
    /\ Len(doc[1].blocks) = 1
    /\ Len(doc[1].blocks[1]) >= 3

-----------------------------------------------------------------------------
(* C2: the Word built from box j of page i has as text the j-th string of   *)
(* the page's slice of the flat list (the slice starting at the number of   *)
(* boxes of the pages before), as confidence the score of box j and as      *)
(* geometry its two corners, wherever sorting and grouping put the Word.    *)

C2_WordFromBox ==
    \A k \in Built :
        \A l \in 1..Len(lines[k]) :
            \A p \in 1..Len(lines[k][l]) :
                LET j == lines[k][l][p]
                    b == boxes[k][j]
                    w == _pages[k].blocks[1][l][p]
                IN  /\ Offset(k) + j <= Len(char_sequences)
                    /\ w.value = char_sequences[Offset(k) + j]
                    /\ w.confidence = b[5]
                    /\ w.geometry = <<<<b[1], b[2]>>, <<b[3], b[4]>>>>

C2_Witness ==
    /\ Returned
    /\ Len(doc) = 2
    /\ boxes[1] = <<BoxE, BoxA>>
    /\ boxes[2] = <<BoxE, BoxA>>
    /\ resolve_lines = TRUE
    /\ doc[2].blocks[1][1][1].value = Token(4)

-----------------------------------------------------------------------------
(* C3: with fewer strings in the flat list than boxes over all pages, the   *)
(* call never reaches its return: it ends with the ValueError of            *)
(* _build_blocks and no Document.                                           *)

C3_FewerStringsRaise ==
    (pc \in {"loop", "done"} /\ Len(char_sequences) < SumLen(boxes)) =>
        /\ result = NoDocument
        /\ pc = "loop" => page_idx < Len(boxes)
        /\ pc = "done" => raised = "ValueError"

C3_Witness ==
    /\ pc = "done"
    /\ raised = "ValueError"
    /\ SumLen(boxes) = 3
    /\ Len(char_sequences) = 2
    /\ Len(_pages) = 1
    /\ result = NoDocument

-----------------------------------------------------------------------------
(* C4: with more strings in the flat list than boxes over all pages, the    *)
(* call ends with the ValueError of _build_blocks and no Document.          *)

C4_SurplusStringsRaise ==
    (pc = "done" /\ SumLen(boxes) >= 1
                 /\ Len(char_sequences) > SumLen(boxes)) =>
        /\ raised = "ValueError"
        /\ result = NoDocument

-----------------------------------------------------------------------------
(* C5: the loop iteration of a page without boxes raises nothing, appends   *)
(* a Page with an empty block list and leaves crop_idx as it is; the words  *)
(* of every page assembled after it carry the strings of that page's own    *)
(* positions in the flat list.                                              *)

EmptyPageStep ==
    (pc = "loop" /\ page_idx < Len(boxes) /\ Len(boxes[page_idx + 1]) = 0) =>
        /\ pc' = "loop"
        /\ raised' = ""
        /\ crop_idx' = crop_idx
        /\ page_idx' = page_idx + 1
        /\ _pages' = Append(_pages, [blocks |-> <<>>, page_idx |-> page_idx,
                                     dimensions |-> page_shapes[page_idx + 1]])

AfterEmptyPage ==
    \A k \in Built :
        Len(boxes[k]) = 0 =>
            /\ _pages[k].blocks = <<>>
            /\ \A m \in Built :
                   (m > k /\ Len(boxes[m]) > 0) =>
                       {w.value : w \in {Flatten(_pages[m].blocks[1])[q] :
                                            q \in 1..Len(boxes[m])}}
                       = {char_sequences[Offset(m) + j] : j \in 1..Len(boxes[m])}

C5_EmptyPage == [][EmptyPageStep]_vars /\ []AfterEmptyPage

C5_Witness ==
    /\ Returned
    /\ resolve_lines = TRUE
    /\ boxes = << <<>>, <<BoxE, BoxA>> >>
    /\ doc[1].blocks = <<>>
    /\ doc[2].blocks[1][1][1].value = Token(2)
    /\ doc[2].blocks[1][2][1].value = Token(1)

-----------------------------------------------------------------------------
(* C6: with resolve_lines and the default paragraph_break, a page of        *)
(* relative boxes of one height that forms two rows, the lower row wholly   *)
(* below the upper one, the y-centres of a row less than half a height      *)
(* apart and every horizontal gap between neighbours of a row below         *)
(* paragraph_break, gives exactly two Lines, one per row, each in           *)
(* ascending xmin order.                                                    *)

Range(f) == {f[x] : x \in DOMAIN f}

Abs(x) == IF x < 0 THEN -x ELSE x

Relative(bxs) ==
    \A i \in 1..Len(bxs) : \A c \in 1..4 : bxs[i][c] >= 0 /\ bxs[i][c] <= 1000

EqualHeights(bxs) ==
    \A i, j \in 1..Len(bxs) : bxs[i][4] - bxs[i][2] = bxs[j][4] - bxs[j][2]

\* R is one row: y-centres less than half the (common) height apart
OneRowOf(bxs, R) ==
    \A i, j \in R :
        Abs(YCenter2(bxs[i]) - YCenter2(bxs[j])) < bxs[i][4] - bxs[i][2]

\* j follows i in R by xmin with no word of R strictly between them
Neighbours(bxs, R, i, j) ==
    /\ i # j
    /\ bxs[i][1] <= bxs[j][1]
    /\ ~ \E m \in R : bxs[i][1] < bxs[m][1] /\ bxs[m][1] < bxs[j][1]

GapsBelow(bxs, R, pb) ==
    \A i, j \in R : Neighbours(bxs, R, i, j) => bxs[j][1] - bxs[i][3] < pb

\* R is the upper row of a page of two rows
UpperRow(bxs, R, pb) ==
    LET S == (1..Len(bxs)) \ R
    IN  /\ R # {} /\ S # {}
        /\ \A i \in R : \A j \in S : bxs[j][2] >= bxs[i][4]
        /\ OneRowOf(bxs, R) /\ OneRowOf(bxs, S)
        /\ GapsBelow(bxs, R, pb) /\ GapsBelow(bxs, S, pb)

AscendingXmin(bxs, line) ==
    \A p \in 1..(Len(line) - 1) : bxs[line[p]][1] <= bxs[line[p + 1]][1]

C6_TwoRowsTwoLines ==
    \A k \in Built :
        (resolve_lines = TRUE /\ paragraph_break = DefaultParagraphBreak
           /\ Relative(boxes[k]) /\ EqualHeights(boxes[k])) =>
            \A R \in SUBSET (1..Len(boxes[k])) :
                UpperRow(boxes[k], R, paragraph_break) =>
                    /\ Len(lines[k]) = 2
                    /\ {Range(lines[k][1]), Range(lines[k][2])}
                         = {R, (1..Len(boxes[k])) \ R}
                    /\ Len(lines[k][1]) + Len(lines[k][2]) = Len(boxes[k])
                    /\ AscendingXmin(boxes[k], lines[k][1])
                    /\ AscendingXmin(boxes[k], lines[k][2])

C6_Witness ==
    /\ Returned
    /\ resolve_lines = TRUE
    /\ paragraph_break = DefaultParagraphBreak
    /\ boxes = << <<BoxE, BoxB, BoxD, BoxA>> >>
    /\ UpperRow(boxes[1], {2, 4}, paragraph_break)
    /\ lines = << << <<4, 2>>, <<3, 1>> >> >>

-----------------------------------------------------------------------------
(* C7: the words of a Line are in ascending xmin order with every gap       *)
(* between consecutive words below paragraph_break; and when the page is    *)
(* one row (all boxes on the same ymin and ymax), its words taken in xmin   *)
(* order are cut into Lines exactly at the consecutive pairs with           *)
(* current.xmin - previous.xmax >= paragraph_break, so the number of Lines  *)
(* is 1 plus the number of such pairs.                                      *)

AlignedRow(bxs) ==
    \A i, j \in 1..Len(bxs) : bxs[i][2] = bxs[j][2] /\ bxs[i][4] = bxs[j][4]

\* Number of words of the first l lines
PrefixLen(ls, l) == Len(Flatten(SubSeq(ls, 1, l)))

\* The line holding the r-th word of the flattened lines
LineOf(ls, r) ==
    CHOOSE l \in 1..Len(ls) : PrefixLen(ls, l - 1) < r /\ r <= PrefixLen(ls, l)

GapAt(bxs, flat, r) == bxs[flat[r + 1]][1] - bxs[flat[r]][3]

C7_SubLineSplit ==
    \A k \in Built :
        (resolve_lines = TRUE /\ Len(boxes[k]) >= 1) =>
            LET bxs == boxes[k]
                ls == lines[k]
                flat == Flatten(ls)
                n == Len(bxs)
                pb == paragraph_break
            IN  /\ \A l \in 1..Len(ls) :
                       /\ Len(ls[l]) >= 1
                       /\ AscendingXmin(bxs, ls[l])
                       /\ \A p \in 1..(Len(ls[l]) - 1) : GapAt(bxs, ls[l], p) < pb
                /\ AlignedRow(bxs) =>
                       /\ IsPermutation(flat, n)
                       /\ AscendingXmin(bxs, flat)
                       /\ \A r \in 1..(n - 1) :
                              (LineOf(ls, r + 1) # LineOf(ls, r))
                                  <=> (GapAt(bxs, flat, r) >= pb)
                       /\ Len(ls) = 1 + Cardinality({r \in 1..(n - 1) :
                                                       GapAt(bxs, flat, r) >= pb})

C7_Witness ==
    /\ Returned
    /\ resolve_lines = TRUE
    /\ paragraph_break = DefaultParagraphBreak
    /\ boxes = << <<BoxC, BoxA, BoxB>> >>
    /\ GapAt(boxes[1], <<2, 3, 1>>, 1) = 20
    /\ GapAt(boxes[1], <<2, 3, 1>>, 2) = 50
    /\ lines = << << <<2, 3>>, <<1>> >> >>

-----------------------------------------------------------------------------
(* C8: without resolve_lines, a page of N >= 1 boxes is one Block of one    *)
(* Line of N Words, one per box, whose keys xmin + 2 * ymax / y_med (taken  *)
(* from the Words' own geometry) never decrease along the Line.             *)

\* The key of a Word of a page, times 1000 * YMed2
WordKey(bxs, w) == w.geometry[1][1] * YMed2(bxs) + 4 * 1000 * w.geometry[2][2]

C8_SingleSortedLine ==
    \A k \in Built :
        (resolve_lines = FALSE /\ Len(boxes[k]) >= 1) =>
            /\ Len(_pages[k].blocks) = 1
            /\ Len(_pages[k].blocks[1]) = 1
            /\ Len(_pages[k].blocks[1][1]) = Len(boxes[k])
            /\ Len(lines[k]) = 1
            /\ IsPermutation(lines[k][1], Len(boxes[k]))
            /\ \A p \in 1..(Len(boxes[k]) - 1) :
                   WordKey(boxes[k], _pages[k].blocks[1][1][p])
                       <= WordKey(boxes[k], _pages[k].blocks[1][1][p + 1])

C8_Witness ==
    /\ Returned
    /\ resolve_lines = FALSE
    /\ boxes = << <<BoxE, BoxC, BoxD, BoxA>> >>
    /\ lines = << << <<4, 2, 3, 1>> >> >>
    /\ Len(doc[1].blocks[1][1]) = 4

-----------------------------------------------------------------------------
(* C9: __init__ called with resolve_blocks=True, whatever resolve_lines     *)
(* and paragraph_break, ends with NotImplementedError; no builder exists    *)
(* that could be called, and nothing is ever assembled.                     *)

C9_ResolveBlocksRaises ==
    (pc # "new" /\ init_args.resolve_blocks) =>
        /\ pc = "ctor_raised"
        /\ raised = "NotImplementedError"
        /\ ~ ENABLED Call
        /\ _pages = <<>>
        /\ result = NoDocument

C9_Witness ==
    /\ pc = "ctor_raised"
    /\ init_args = [resolve_lines |-> TRUE, resolve_blocks |-> TRUE,
                    paragraph_break |-> 50]
    /\ raised = "NotImplementedError"

-----------------------------------------------------------------------------
(* C10: the Document returned for P pages holds P Pages in input order:     *)
(* the k-th (from 0) has page_idx k and dimensions page_shapes[k], and its  *)
(* Words are those of the boxes of the k-th box array.                      *)

WordsOf(page) ==
    IF page.blocks = <<>> THEN <<>> ELSE Flatten(page.blocks[1])

C10_PagesInInputOrder ==
    Returned =>
        /\ Len(doc) = Len(boxes)
        /\ \A k \in 1..Len(boxes) :
               /\ doc[k].page_idx = k - 1
               /\ doc[k].dimensions = page_shapes[k]
               /\ Len(WordsOf(doc[k])) = Len(boxes[k])
               /\ {<<w.geometry, w.confidence>> : w \in Range(WordsOf(doc[k]))}
                    = {<<<<<<b[1], b[2]>>, <<b[3], b[4]>>>>, b[5]>> :
                         b \in Range(boxes[k])}

C10_Witness ==
    /\ Returned
    /\ boxes = << <<BoxA>>, <<BoxE, BoxE>> >>
    /\ Len(doc) = 2
    /\ doc[1].page_idx = 0
    /\ doc[2].page_idx = 1
    /\ doc[2].dimensions = PageShape(2)
    /\ doc[2].dimensions # doc[1].dimensions

-----------------------------------------------------------------------------
(* C11: when some page of an OCRPredictor call is not a 3-dimensional       *)
(* array, the call raises the ValueError of the dimension check with no     *)
(* component invoked (neither the detection predictor, nor the recognition  *)
(* predictor, nor the document builder), whatever the other pages are.      *)

SomePageMalformed == \E k \in 1..Len(pages) : Len(pages[k]) # 3
SomePageWellFormed == \E k \in 1..Len(pages) : Len(pages[k]) = 3

C11_MalformedPageRaisesFirst ==
    (ocr_pc # "idle" /\ SomePageMalformed) =>
        /\ invoked = <<>>
        /\ ocr_pc \in {"check", "raised"}
        /\ ocr_pc = "raised" => ocr_raised = "ValueError"
        /\ ocr_pc = "check" => ENABLED CheckPages

C11_Witness ==
    /\ ocr_pc = "raised"
    /\ ocr_raised = "ValueError"
    /\ SomePageMalformed
    /\ SomePageWellFormed
    /\ invoked = <<>>

-----------------------------------------------------------------------------
(* C12: for an oriented box whose mask is empty or covers only pixels of    *)
(* probability zero, box_score returns the number 0 (not nan), and the      *)
(* candidate is not in the output, whatever box_thresh is.                  *)

ZeroOnMask == rotated_bbox /\ \A px \in points : pred[px] = 0

C12_ZeroMaskScoresZero ==
    (score_pc # "input" /\ ZeroOnMask) =>
        /\ ~IsNaN(score)
        /\ score[1] = 0
        /\ score_pc = "filtered" => ~kept

-----------------------------------------------------------------------------
(* C13: DetectionPostProcessor.__call__ on P probability maps returns P box *)
(* lists and P angles in page order: the i-th angle is the skew estimated   *)
(* on page i's binarized, then opened bitmap, and the i-th box list is      *)
(* extracted from page i's map and that bitmap, both rotated by minus that  *)
(* angle.                                                                   *)

\* the opened bitmap of page i, and its estimated skew
OpenedBitmap(i) == [opened |-> Binarized(proba_map[i], bin_thresh), kernel |-> k_size]
Skew(i) == [skew_of |-> OpenedBitmap(i), times |-> 1]
CounterSkew(i) == [skew_of |-> OpenedBitmap(i), times |-> -1]

C13_PerPageAngleAndBoxes ==
    post_pc = "returned" =>
        /\ Len(post_result[1]) = Len(proba_map)
        /\ Len(post_result[2]) = Len(proba_map)
        /\ \A i \in 1..Len(proba_map) :
              /\ post_result[2][i] = Skew(i)
              /\ post_result[1][i] =
                    [boxes_of |-> [rotated |-> proba_map[i], by |-> CounterSkew(i)],
                     on |-> [rotated |-> OpenedBitmap(i), by |-> CounterSkew(i)]]

C13_Witness ==
    /\ post_pc = "returned"
    /\ Len(proba_map) = 2
    /\ post_result[2][1] # post_result[2][2]
    /\ post_result[1][1] # post_result[1][2]

-----------------------------------------------------------------------------
(* C14: two calls of one builder with identical boxes, strings and page     *)
(* shapes end alike, and when they return, return Documents with the same   *)
(* Pages, Lines and Word order, also for pages holding boxes of equal       *)
(* ordering key or equal xmin.                                              *)

SameArguments(h) ==
    /\ h.boxes = boxes
    /\ h.char_sequences = char_sequences
    /\ h.page_shapes = page_shapes

\* some page holds two boxes of equal xmin
TiedBoxes ==
    \E k \in 1..Len(boxes) : \E i, j \in 1..Len(boxes[k]) :
        i # j /\ boxes[k][i][1] = boxes[k][j][1]

-----------------------------------------------------------------------------
(* C17: a DocumentBuilder keeps nothing from one call to the next.  No step *)
(* of a call, returning or raising, changes resolve_lines, paragraph_break  *)
(* or the arguments the caller passed; every call starts from page_idx = 0, *)
(* crop_idx = 0 and no Page; and a call ends exactly as any earlier call    *)
(* with the same arguments did, whatever calls came in between.             *)

C17_Step ==
    /\ pc # "new" => /\ resolve_lines' = resolve_lines
                     /\ paragraph_break' = paragraph_break
    /\ pc = "loop" => /\ boxes' = boxes
                      /\ char_sequences' = char_sequences
                      /\ page_shapes' = page_shapes
    /\ (pc # "loop" /\ pc' = "loop") => /\ page_idx' = 0
                                        /\ crop_idx' = 0
                                        /\ _pages' = <<>>

C17_SameAsBefore ==
    pc = "done" =>
        \A k \in 1..Len(history) : SameArguments(history[k]) => history[k] = Outcome

C17_Stateless == [][C17_Step]_vars /\ []C17_SameAsBefore

\* a call that returns as its first call did, after a call that raised
C17_Witness ==
    /\ Returned
    /\ Len(history) = 2
    /\ SameArguments(history[1])
    /\ history[1].result = result
    /\ ~SameArguments(history[2])
    /\ history[2].raised = "ValueError"

-----------------------------------------------------------------------------
(* C15 (as claimed): when page k of a batch fails, the Pages of the other   *)
(* pages, those assembled before page k in particular, still reach the      *)
(* caller.                                                                  *)

C15_PagesSurviveFailure ==
    (pc = "done" /\ raised = "ValueError" /\ Len(_pages) >= 1) => result # NoDocument

(* C15 (amended): a page whose strings are missing aborts the whole call.   *)
(* The call ends at the first such page k with the ValueError and without   *)
(* a Document: the k - 1 Pages assembled before it exist only in the local  *)
(* _pages, and no page after k is processed.                                *)

\* page k is given fewer strings than it has boxes
ShortPage(k) == Offset(k) + Len(boxes[k]) > Len(char_sequences)

C15_FailureAbortsCall ==
    (pc = "done" /\ \E k \in 1..Len(boxes) : ShortPage(k)) =>
        /\ raised = "ValueError"
        /\ result = NoDocument
        /\ page_idx < Len(boxes)
        /\ ShortPage(page_idx + 1)
        /\ \A k \in 1..page_idx : ~ShortPage(k)
        /\ Len(_pages) = page_idx

C15_Witness ==
    /\ pc = "done"
    /\ raised = "ValueError"
    /\ Len(boxes) = 2
    /\ Len(_pages) = 1
    /\ _pages[1].blocks # <<>>
    /\ result = NoDocument

-----------------------------------------------------------------------------
(* C16 (as claimed): every fatal error names the offending page by its      *)
(* index and its shape.                                                     *)

C16_ErrorNamesPage ==
    (pc = "done" /\ raised = "ValueError") =>
        /\ {"page_idx", "page_shape"} \subseteq DOMAIN message
        /\ message.page_idx = page_idx
        /\ message.page_shape = page_shapes[page_idx + 1]

(* C16 (amended): no fatal error names the offending page.  The ValueError  *)
(* of DocumentBuilder carries the box count of the page and the length of   *)
(* the string slice it was given, and nothing else; the ValueError of the   *)
(* dimension check of OCRPredictor carries a fixed text.                    *)

C16_ErrorCarriesCountsOnly ==
    /\ (pc = "done" /\ raised = "ValueError") =>
          LET k == page_idx + 1
              left == Len(char_sequences) - Offset(k)
          IN  message = [text |-> "Incompatible argument lengths: ",
                         boxes |-> Len(boxes[k]),
                         strings |-> IF left > 0 THEN left ELSE 0]
    /\ ocr_pc = "raised" =>
          /\ ocr_raised = "ValueError"
          /\ DOMAIN ocr_message = {"text"}

C16_Witness ==
    /\ pc = "done"
    /\ raised = "ValueError"
    /\ page_idx = 1
    /\ message.boxes = 2
    /\ message.strings = 1
    /\ page_shapes[2] # page_shapes[1]

-----------------------------------------------------------------------------
(* C18: batch_inputs on n samples with batch size b returns ceil(n / b)     *)
(* batches whose concatenation is the n samples in input order; every batch *)
(* but the last holds b samples, the last holds n mod b samples when that   *)
(* is not 0 and b otherwise; no batch is empty.                             *)

C18_BatchesPartitionInput ==
    batch_pc = "returned" =>
        LET out == batch_result[1]
            n == Len(batch_x)
            b == batch_size
        IN  /\ Len(out) = (n + b - 1) \div b
            /\ Flatten(out) = batch_x
            /\ \A i \in 1..Len(out) :
                  /\ Len(out[i]) >= 1
                  /\ i < Len(out) => Len(out[i]) = b
                  /\ i = Len(out) => Len(out[i]) = IF n % b # 0 THEN n % b ELSE b

\* three batches of 3, 3 and 1 samples; two full batches of 4
C18_Witness ==
    /\ batch_pc = "returned"
    /\ \/ Len(batch_x) = 7 /\ batch_size = 3 /\ Len(batch_result[1]) = 3
          /\ Len(batch_result[1][3]) = 1
       \/ Len(batch_x) = 8 /\ batch_size = 4 /\ Len(batch_result[1]) = 2

-----------------------------------------------------------------------------
(* C19: SARPostProcessor.__call__ on logits (B, T, C) returns B strings;    *)
(* the b-th is the concatenation of the vocabulary labels of the argmax     *)
(* classes of sample b before its first <eos> step (of all T steps when     *)
(* there is none), so that every character is of the vocabulary and no      *)
(* string holds the text "<eos>".  Stated for ignore_case = False.          *)

\* the first step of sample b on the <eos> class, T + 1 when there is none
FirstEosStep(b) ==
    LET T == Len(sar_pred[b])
        steps == {t \in 1..T : sar_pred[b][t] = EosClass}
    IN  IF steps = {} THEN T + 1 ELSE CHOOSE t \in steps : \A u \in steps : t <= u

LabelsBeforeEos(b) == [t \in 1..(FirstEosStep(b) - 1) |-> Vocab[sar_pred[b][t] + 1]]

C19_DecodedUntilEos ==
    (sar_pc = "returned" /\ ~ignore_case) =>
        /\ Len(words_list) = Len(logits)
        /\ \A b \in 1..Len(words_list) : words_list[b] = LabelsBeforeEos(b)

-----------------------------------------------------------------------------
(* C20: pixmap_to_numpy raises for every channel_order other than "RGB" and *)
(* "BGR" and returns no array then; for "BGR" it returns the decoded image, *)
(* for "RGB" the decoded image with its channel axis reversed.              *)

C20_ChannelOrder ==
    pix_pc \in {"returned", "raised"} =>
        /\ channel_order \notin {"RGB", "BGR"} =>
              pix_pc = "raised" /\ pix_raised = "Exception" /\ pix_result = <<>>
        /\ channel_order = "BGR" =>
              pix_pc = "returned" /\ pix_raised = "" /\ pix_result = img
        /\ channel_order = "RGB" =>
              /\ pix_pc = "returned"
              /\ pix_raised = ""
              /\ Len(pix_result) = Len(img)
              /\ \A i \in 1..Len(img) :
                    pix_result[i] = <<img[i][3], img[i][2], img[i][1]>>

\* an image of two pixels, red and blue, asked for as RGB
C20_Witness ==
    /\ pix_pc = "returned"
    /\ channel_order = "RGB"
    /\ img = <<<<0, 0, 255>>, <<255, 0, 0>>>>
    /\ pix_result = <<<<255, 0, 0>>, <<0, 0, 255>>>>

\* the list of test_resolve_enclosing_bbox and the box it expects
EnclosingTestBoxes == <<<<<<0, 500>>, <<1000, 0>>>>, <<<<500, 0>>, <<1000, 250>>>>>>

EnclosingTestBox == <<<<0, 0>>, <<1000, 500>>>>

\* C21: the box resolve_enclosing_bbox returns for a non-empty list covers
\* every corner of every box of the list and is the smallest such box, each
\* of its four sides passing through a corner of some box; for the list of
\* the test it is ((0, 0), (1, 0.5)).
C21_EnclosingBoxIsMinimal ==
    geo_pc = "enclosed" =>
        /\ \A p \in CornersOf(bboxes) :
              /\ geo_result[1][1] <= p[1] /\ p[1] <= geo_result[2][1]
              /\ geo_result[1][2] <= p[2] /\ p[2] <= geo_result[2][2]
        /\ \A c \in 1..2 : \A k \in 1..2 :
              \E p \in CornersOf(bboxes) : p[k] = geo_result[c][k]
        /\ bboxes = EnclosingTestBoxes => geo_result = EnclosingTestBox

C21_Witness ==
    /\ geo_pc = "enclosed"
    /\ bboxes = EnclosingTestBoxes
    /\ geo_result = EnclosingTestBox

\* xmin <= xmax and ymin <= ymax
AxisAligned(b) == b[1][1] <= b[2][1] /\ b[1][2] <= b[2][2]

\* C22: for a box ((xmin, ymin), (xmax, ymax)) with xmin <= xmax and
\* ymin <= ymax, bbox_to_polygon returns the corners top-left, top-right,
\* bottom-left, bottom-right in that order, and polygon_to_bbox of that
\* polygon is the box itself.
C22_PolygonRoundTrip ==
    (geo_pc \in {"polygon", "bbox"} /\ AxisAligned(bbox)) =>
        /\ polygon = << <<bbox[1][1], bbox[1][2]>>, <<bbox[2][1], bbox[1][2]>>,
                        <<bbox[1][1], bbox[2][2]>>, <<bbox[2][1], bbox[2][2]>> >>
        /\ geo_pc = "bbox" => geo_result = bbox

C22_Witness ==
    /\ geo_pc = "bbox"
    /\ AxisAligned(bbox)
    /\ bbox[1][1] < bbox[2][1]
    /\ bbox[1][2] < bbox[2][2]
    /\ geo_result = bbox

\* the separator the claim gives for each kind of element
ClaimedSeparator ==
    [Line |-> <<" ">>, Block |-> <<"\n">>, Page |-> <<"\n", "\n">>,
     Document |-> <<"\n", "\n", "\n", "\n">>]

\* where the text of child i starts in the text of its parent, less one
RECURSIVE ChildOffset(_, _, _)
ChildOffset(e, sep, i) ==
    IF i = 1 THEN 0
    ELSE ChildOffset(e, sep, i - 1) + Len(render(e.children[i - 1])) + Len(sep)

\* C23: the text render() returns for a Line, Block, Page or Document is the
\* texts of its children in their stored order, each two neighbours parted
\* by the separator of the kind (one space, one newline, two newlines, four
\* newlines), with nothing before the first child's text and nothing after
\* the last child's.
C23_RenderJoinsChildren ==
    (render_pc = "rendered" /\ element.kind # "Word") =>
        LET sep == ClaimedSeparator[element.kind]
            n == Len(element.children)
            text(i) == render(element.children[i])
            start(i) == ChildOffset(element, sep, i)
        IN  /\ n = 0 => rendered = <<>>
            /\ n > 0 => Len(rendered) = start(n) + Len(text(n))
            /\ \A i \in 1..n :
                  SubSeq(rendered, start(i) + 1, start(i) + Len(text(i))) = text(i)
            /\ \A i \in 1..(n - 1) :
                  SubSeq(rendered, start(i) + Len(text(i)) + 1, start(i + 1)) = sep

C23_Witness ==
    /\ render_pc = "rendered"
    /\ element.kind = "Document"
    /\ Len(element.children) = 2
    /\ Len(element.children[1].children) = 2
    /\ Len(rendered) = 2 * (2 * (2 * 11 + 1) + 2) + 4

-----------------------------------------------------------------------------
(* C24: the key by which the words of a page are ordered.                   *)

\* xmin + 2 * (ymax - ymin) / y_med of box i, times 1000 * YMed2
HeightKey(bxs, i) == bxs[i][1] * YMed2(bxs) + 4 * 1000 * (bxs[i][4] - bxs[i][2])

\* xmin + 2 * ymax / y_med of box i, times 1000 * YMed2
BottomKey(bxs, i) == bxs[i][1] * YMed2(bxs) + 4 * 1000 * bxs[i][4]

\* the key of every box of a page
KeysOf(key(_, _), bxs) == [i \in 1..Len(bxs) |-> key(bxs, i)]

\* the boxes in increasing order of their keys, no two of which are equal
ByKey(keys) ==
    [r \in 1..Len(keys) |->
        CHOOSE i \in 1..Len(keys) :
            Cardinality({j \in 1..Len(keys) : keys[j] < keys[i]}) = r - 1]

DistinctKeys(keys) ==
    \A i, j \in 1..Len(keys) : i # j => keys[i] # keys[j]

\* a page is assembled by the key: without resolve_lines its one line lists
\* the boxes by non-decreasing key; with resolve_lines its lines are those of
\* the walk over the boxes in key order
AssembledBy(key(_, _), k) ==
    LET bxs == boxes[k]
        keys == KeysOf(key, bxs)
        o == ByKey(keys)
    IN  IF resolve_lines
        THEN DistinctKeys(keys) =>
                 lines[k] = LineWalk(bxs, o, paragraph_break, 2, <<>>, <<o[1]>>,
                                     YCenter2(bxs[o[1]]))
        ELSE \A p \in 1..(Len(bxs) - 1) :
                 keys[lines[k][1][p]] <= keys[lines[k][1][p + 1]]

\* C24 as claimed: in both modes the words of every assembled page are
\* ordered by xmin + 2 * h / y_med, h = ymax - ymin being the height of the
\* box and y_med the median box height of the page.
C24_SortedByHeightKey ==
    \A k \in Built : Len(boxes[k]) >= 1 => AssembledBy(HeightKey, k)

\* C24 amended: in both modes the words of every assembled page are ordered
\* by xmin + 2 * ymax / y_med, ymax being the lower edge of the box and
\* y_med the median box height of the page.
C24_SortedByBottomKey ==
    \A k \in Built : Len(boxes[k]) >= 1 => AssembledBy(BottomKey, k)

\* a page of two rows in each mode: the lower row's boxes are no taller than
\* the upper row's, and are visited after them
C24_Witness ==
    /\ Returned
    /\ boxes = << <<BoxD, BoxA, BoxB>> >>
    /\ DistinctKeys(KeysOf(BottomKey, boxes[1]))
    /\ \/ resolve_lines = FALSE /\ lines = << << <<2, 3, 1>> >> >>
       \/ resolve_lines = TRUE /\ lines[1][Len(lines[1])] = <<1>>

-----------------------------------------------------------------------------
(* C25: the rule that closes a line in _resolve_lines.                      *)

\* twice the sum of the y-centres of the words at positions s..e of an order
RECURSIVE YCenterSum2(_, _, _, _)
YCenterSum2(bxs, o, s, e) ==
    IF s > e THEN 0 ELSE YCenter2(bxs[o[s]]) + YCenterSum2(bxs, o, s + 1, e)

\* |y-centre of the word at position r - mean y-centre of the words at
\* positions s..r-1| < y_med / 2, multiplied out by 4 * (r - s); y_med2 is
\* twice the median box height
NearLine(bxs, o, s, r, y_med2) ==
    2 * Abs((r - s) * YCenter2(bxs[o[r]]) - YCenterSum2(bxs, o, s, r - 1))
        < (r - s) * y_med2

\* the position at which the line holding the word at position r started,
\* for every r up to n
RECURSIVE LineStarts(_, _, _, _)
LineStarts(bxs, o, n, y_med2) ==
    IF n = 1 THEN <<1>>
    ELSE LET before == LineStarts(bxs, o, n - 1, y_med2)
             s == before[n - 1]
         IN  Append(before, IF NearLine(bxs, o, s, n, y_med2) THEN s ELSE n)

\* the lines of the words from position s on, each closed line split into
\* its sub-lines
RECURSIVE LinesFrom(_, _, _, _, _)
LinesFrom(bxs, o, pb, starts, s) ==
    IF s > Len(o) THEN <<>>
    ELSE LET e == CHOOSE r \in s..Len(o) :
                      /\ starts[r] = s
                      /\ r < Len(o) => starts[r + 1] # s
         IN  _resolve_sub_lines(bxs, SubSeq(o, s, e), pb)
                 \o LinesFrom(bxs, o, pb, starts, e + 1)

\* C25: with resolve_lines, the words of a page being walked in key order, a
\* word joins the current line exactly when its y-centre is less than half
\* the median box height away from the mean y-centre of the words already
\* in that line; otherwise that line is closed and split into sub-lines and
\* the word starts the next line, alone.
C25_LineClosesOnVerticalGap ==
    \A k \in Built :
        (resolve_lines = TRUE /\ Len(boxes[k]) >= 1) =>
            LET o == _sort_boxes(boxes[k])
                starts == LineStarts(boxes[k], o, Len(o), YMed2(boxes[k]))
            IN  lines[k] = LinesFrom(boxes[k], o, paragraph_break, starts, 1)

\* a third word joins a line of two on their mean, a fourth closes the line
C25_Witness ==
    /\ Returned
    /\ resolve_lines = TRUE
    /\ boxes = << <<BoxA, BoxB, BoxF, BoxD>> >>
    /\ NearLine(boxes[1], <<1, 2, 3, 4>>, 1, 3, YMed2(boxes[1]))
    /\ ~ NearLine(boxes[1], <<1, 2, 3, 4>>, 1, 4, YMed2(boxes[1]))
    /\ lines = << << <<1, 2, 3>>, <<4>> >> >>

-----------------------------------------------------------------------------
(* C26: the score of an oriented box.                                       *)

\* the filled polygon holds a pixel of non-zero probability
SomeOnMask == rotated_bbox /\ \E px \in points : pred[px] # 0

\* C26: for an oriented box whose mask holds a pixel of non-zero probability,
\* the score is the sum of the map over the pixels of the mask divided by
\* the number of pixels of the mask, those of probability 0 counted.
C26_MaskedAverage ==
    (score_pc # "input" /\ SomeOnMask) =>
        /\ ~ IsNaN(score)
        /\ score[1] * Cardinality(points) = SumOver(points, pred) * score[2]

-----------------------------------------------------------------------------
(* C27: the kernel of the morphological opening.                            *)

\* the height of the maps of the batch, while __call__ still holds the tensor
BatchHeight == proba_map.height

\* sizing the kernel gives it the side 1 + floor(H / 512): the side less one
\* is the largest whole number of times 512 goes into H
C27_SizeStep ==
    post_pc = "binarize" =>
        /\ k_size' >= 1
        /\ 512 * (k_size' - 1) <= BatchHeight
        /\ BatchHeight < 512 * k_size'

\* the side is odd
C27_OddStep == post_pc = "binarize" => k_size' % 2 = 1

\* the side is odd exactly when 512 goes into H an even number of times
C27_ParityStep ==
    post_pc = "binarize" => (k_size' % 2 = 1 <=> (BatchHeight \div 512) % 2 = 0)

\* every page opened so far was opened with the one kernel of the call
C27_OneKernel ==
    /\ post_pc \in {"estimate", "rotate"} => bitmap_.kernel = k_size
    /\ post_pc \notin {"idle", "binarize"} =>
          \A i \in 1..Len(boxes_batch) : boxes_batch[i].on.rotated.kernel = k_size

\* C27 as claimed: the kernel of the opening has side 1 + floor(H / 512), H
\* being the height of the probability map; this side is odd; the same
\* kernel is applied to every page of the batch.
C27_OddKernel == [][C27_SizeStep /\ C27_OddStep]_vars /\ []C27_OneKernel

\* C27 amended: the kernel of the opening has side 1 + floor(H / 512); this
\* side is odd exactly when floor(H / 512) is even, and even otherwise (2
\* for 512 <= H < 1024); the same kernel is applied to every page of the
\* batch.
C27_KernelSide == [][C27_SizeStep /\ C27_ParityStep]_vars /\ []C27_OneKernel

\* a batch of two pages of height 512, both opened with a kernel of side 2
C27_Witness ==
    /\ post_pc = "returned"
    /\ k_size = 2
    /\ Len(boxes_batch) = 2
    /\ boxes_batch[1].on.rotated.kernel = 2
    /\ boxes_batch[2].on.rotated.kernel = 2

-----------------------------------------------------------------------------
(* C28: the boxes crop_detection returns.                                   *)

\* the crop box in the unit of the boxes: pixels, or thousandths of the side
CropBounds ==
    IF crop_boxes.dtype = "int" THEN crop_box
    ELSE <<200 * crop_box[1], 200 * crop_box[2], 200 * crop_box[3], 200 * crop_box[4]>>

Larger(a, b) == IF a > b THEN a ELSE b

Smaller(a, b) == IF a < b THEN a ELSE b

WellFormed(row) == row[1] <= row[3] /\ row[2] <= row[4]

\* what a well-formed box and the crop box have in common
Intersection(row) ==
    <<Larger(row[1], CropBounds[1]), Larger(row[2], CropBounds[2]),
      Smaller(row[3], CropBounds[3]), Smaller(row[4], CropBounds[4])>>

PositiveIntersection(row) ==
    /\ Intersection(row)[1] < Intersection(row)[3]
    /\ Intersection(row)[2] < Intersection(row)[4]

\* the input rows the returned rows come from, one by one in input order
KeptFrom(f) ==
    LET out == crop_result[2]
    IN  /\ \A j \in 1..(Len(out) - 1) : f[j] < f[j + 1]
        /\ \A j \in 1..Len(out) :
              WellFormed(boxes_given[f[j]]) => out[j] = Intersection(boxes_given[f[j]])
        /\ \A i \in 1..Len(boxes_given) :
              WellFormed(boxes_given[i]) =>
                  (PositiveIntersection(boxes_given[i]) <=> \E j \in 1..Len(out) : f[j] = i)

\* C28: every box crop_detection returns lies within the crop box (taken in
\* pixels for absolute boxes, divided by the image width and height for
\* relative ones) and has a width and a height other than zero; the returned
\* boxes come from the input boxes in input order, every well-formed input
\* box with a positive-area intersection with the crop box being returned as
\* that intersection and every well-formed input box without one (entirely
\* outside, or of no area) being removed.
C28_CroppedBoxes ==
    crop_pc = "returned" =>
        LET out == crop_result[2]
        IN  /\ \A j \in 1..Len(out) :
                  /\ \A c \in {1, 3} :
                        CropBounds[1] <= out[j][c] /\ out[j][c] <= CropBounds[3]
                  /\ \A c \in {2, 4} :
                        CropBounds[2] <= out[j][c] /\ out[j][c] <= CropBounds[4]
                  /\ out[j][1] # out[j][3]
                  /\ out[j][2] # out[j][4]
            /\ \E f \in [1..Len(out) -> 1..Len(boxes_given)] : KeptFrom(f)

\* of two relative boxes, the first entirely left of the crop box and the
\* second across its left and upper edges, only the second is returned, cut
C28_Witness ==
    /\ crop_pc = "returned"
    /\ crop_boxes.dtype = "float"
    /\ crop_box = <<2, 2, 4, 4>>
    /\ boxes_given = << <<0, 300, 200, 500>>, <<300, 300, 500, 500>> >>
    /\ crop_result[2] = << <<400, 400, 500, 500>> >>

-----------------------------------------------------------------------------
(* C29: the rectangle an axis-aligned box is scored on.                     *)

\* xmin, xmax, ymin, ymax of lines 77-80 for the polygon of the state
ScoredRectangle ==
    <<Clip(Floor2(points[1]), 0, MapWidth - 1), Clip(Ceil2(points[2]), 0, MapWidth - 1),
      Clip(Floor2(points[3]), 0, MapHeight - 1), Clip(Ceil2(points[4]), 0, MapHeight - 1)>>

\* the polygon has no point over the map
OutsideMap ==
    \/ points[2] < 0
    \/ points[1] > 2 * (MapWidth - 1)
    \/ points[4] < 0
    \/ points[3] > 2 * (MapHeight - 1)

\* C29: for an axis-aligned box, wherever its polygon lies, the bounds
\* obtained by floor / ceil and clipping satisfy 0 <= xmin <= xmax <= w - 1
\* and 0 <= ymin <= ymax <= h - 1, the mean is taken over the
\* (xmax - xmin + 1) * (ymax - ymin + 1) >= 1 pixels of that rectangle, and
\* the score is a number between 0 and 1.
C29_RectangleInsideMap ==
    (score_pc # "input" /\ ~rotated_bbox) =>
        LET r == ScoredRectangle
        IN  /\ 0 <= r[1] /\ r[1] <= r[2] /\ r[2] <= MapWidth - 1
            /\ 0 <= r[3] /\ r[3] <= r[4] /\ r[4] <= MapHeight - 1
            /\ score[2] = (r[2] - r[1] + 1) * (r[4] - r[3] + 1)
            /\ score[2] >= 1
            /\ 0 <= score[1]
            /\ score[1] <= 1000 * score[2]

\* a polygon wholly right of the map is scored on the last column
C29_Witness ==
    /\ score_pc = "scored"
    /\ ~rotated_bbox
    /\ OutsideMap
    /\ points[1] = 2 * MapWidth
    /\ ScoredRectangle[1] = MapWidth - 1
    /\ score[2] >= 1

-----------------------------------------------------------------------------
(* C30: which backends file_utils reports available.                        *)

\* both module globals are set
BackendsKnown == backend_pc \in {"import", "imported"}

AutoSpellings == {<<"A", "U", "T", "O">>, <<"a", "u", "t", "o">>, <<"A", "u", "t", "o">>}

\* the variable is set to AUTO, in some letter case
SetToAuto(name) == name \in DOMAIN environ /\ environ[name] \in AutoSpellings

\* PyTorch and TensorFlow 2 are both installed, module and metadata
BothInstalled ==
    /\ "torch" \in modules
    /\ "torch" \in DOMAIN distributions
    /\ "tensorflow" \in modules
    /\ \/ "tensorflow" \in DOMAIN distributions /\ distributions["tensorflow"] = 2
       \/ /\ "tensorflow" \notin DOMAIN distributions
          /\ "tensorflow-cpu" \in DOMAIN distributions
          /\ distributions["tensorflow-cpu"] = 2

\* with both variables unset, PyTorch is reported unavailable
UnsetMeansNoTorch == (BackendsKnown /\ DOMAIN environ = {}) => ~_torch_available

\* C30 as claimed: whatever USE_TF and USE_TORCH are set to and whatever is
\* installed, is_tf_available() and is_torch_available() are never both
\* true; with both variables unset PyTorch is reported unavailable.
C30_BackendsExclusive ==
    /\ BackendsKnown => ~(_tf_available /\ _torch_available)
    /\ UnsetMeansNoTorch

\* C30 amended: is_tf_available() and is_torch_available() are both true
\* exactly when USE_TF and USE_TORCH are both set to AUTO (in any letter
\* case) and PyTorch and TensorFlow 2 are both installed, and the package
\* then imports its TensorFlow side; for every other setting at most one of
\* them is true; with both variables unset PyTorch is reported unavailable.
C30_BothOnlyOnAuto ==
    /\ BackendsKnown =>
          ((_tf_available /\ _torch_available)
              <=> (SetToAuto("USE_TF") /\ SetToAuto("USE_TORCH") /\ BothInstalled))
    /\ (backend_pc = "imported" /\ _tf_available /\ _torch_available) =>
          imported = <<"datasets", "documents", "models", "transforms", "utils">>
    /\ UnsetMeansNoTorch

\* USE_TF=auto, USE_TORCH=AUTO, both installed: both backends are reported
C30_Witness ==
    /\ backend_pc = "imported"
    /\ environ = [n \in {"USE_TF", "USE_TORCH"} |->
                     IF n = "USE_TF" THEN <<"a", "u", "t", "o">> ELSE <<"A", "U", "T", "O">>]
    /\ BothInstalled
    /\ _tf_available
    /\ _torch_available
    /\ Len(imported) = 5

====
